---------------------------- MODULE Spec2Model ----------------------------
(***************************************************************************)
(* Relay Proxy Service (src/main.py) and its support modules               *)
(* (src/backend/observability.py, relay_api.py, memory_manager.py).        *)
(*                                                                         *)
(* The module holds one state machine per component, over one set of       *)
(* variables:                                                              *)
(*   SpecStartupFair  module load of main.py (lines 25-67), run to its     *)
(*                 end, and GET /                                          *)
(*   SpecOrigins   the ALLOWED_ORIGINS construction, over every            *)
(*                 FRONTEND_ORIGIN text up to MaxEnvLen                    *)
(*   SpecHTTP      proxy_execute_method                                    *)
(*   SpecWS        proxy_ws with its two relay loops                       *)
(*   SpecWSFair    SpecWS where the event loop runs every task that can    *)
(*                 run                                                     *)
(*   SpecWSUrl     proxy_ws over every client query and header set up to   *)
(*                 MaxQuery and MaxWsHeaders, on connections without       *)
(*                 frames                                                  *)
(*   SpecMetrics   the observability counters under concurrent callers     *)
(*   SpecProxyMetrics  proxy_execute_method together with GET /metrics     *)
(*   SpecMemory    the methods of MemoryManager on the shared instance     *)
(*   SpecRelayApi  the relay_api helpers, one caller                       *)
(*   SpecRelayApiThreads  the relay_api helpers called from threads        *)
(* A component that a specification does not exercise stays in its idle    *)
(* state.                                                                  *)
(***************************************************************************)
EXTENDS Integers, Sequences, FiniteSets, TLC

VARIABLES
    \* ---- module load of main.py
    load_pc,            \* position in the module body
    env,                \* the process environment: name -> text, or unset
    RELAY_UPSTREAM,     \* main.py:26
    RELAY_PORT,         \* main.py:30
    FRONTEND_ORIGIN,    \* main.py:31
    ALLOWED_ORIGINS,    \* main.py:37
    routes,             \* routes registered on app
    health_served,      \* answers given by root_health
    \* ---- proxy_execute_method
    http_pc,
    request,            \* the inbound request being handled
    headers_to_send,    \* main.py:116
    upstream_calls,     \* upstream requests issued for the current inbound request
    upstream_resp,      \* what the upstream answered
    response,           \* what the handler returned to the client
    requests_done,      \* inbound requests answered
    \* ---- proxy_ws
    ws_pc,
    fu_pc,              \* from_upstream()
    fc_pc,              \* from_client()
    client_conn,        \* the client WebSocket
    upstream_conn,      \* upstream_ws
    connect_attempts,   \* calls of websockets.connect
    message,            \* from_upstream's loop variable
    data,               \* from_client's received event
    from_upstream_rx,   \* frames the proxy received from the upstream
    to_client_tx,       \* frames the proxy sent to the client
    from_client_rx,     \* text/binary frames the proxy received from the client
    to_upstream_tx,     \* frames the proxy sent to the upstream
    fu_end,             \* why from_upstream left its loop
    fc_end,             \* why from_client left its loop
    client_query,       \* websocket.query_params, items in order
    client_headers,     \* websocket.headers, items in order
    upstream_ws_url,    \* main.py:177
    \* ---- observability
    metrics,            \* _metrics
    metrics_lock,       \* _metrics_lock: its holder, 0 when free
    th_pc,              \* each caller's position
    th_op,              \* each caller's current call
    th_tmp,             \* each caller's value read for +=
    th_lines,           \* get_metrics_text's lines
    th_snap,            \* what had been recorded when the lines were built
    th_result,          \* the last text get_metrics_text returned to the caller
    calls_made,         \* calls started so far (all callers)
    returned_api,       \* sum of the amounts of the increment_api_calls calls that returned
    returned_ws,        \* the same for increment_ws_connections
    recorded_default,   \* increment_api_calls() calls with the default amount that returned
    recorded_other,     \* increment_api_calls(amount) calls with another amount that returned
    \* ---- relay_api and MemoryManager
    shared_memory,      \* _shared_memory: 0 for None, else the instance
    instances,          \* the _store of every MemoryManager constructed, in order
    mm_history,         \* the set, delete and clear calls made on _memory, in order
    mm_result,          \* the last call made on _memory and what it returned
    ra_callers,         \* the threads that call relay_api
    ra_pc,              \* each caller's position in relay_api
    ra_call,            \* each caller's current call
    ra_mm,              \* each caller's instance: `mm`, or what get_memory_manager returned
    ra_history          \* the relay_api calls that returned, in order

startVars == <<load_pc, env, RELAY_UPSTREAM, RELAY_PORT, FRONTEND_ORIGIN,
               ALLOWED_ORIGINS, routes, health_served>>
httpVars == <<http_pc, request, headers_to_send, upstream_calls, upstream_resp,
              response, requests_done>>
wsVars == <<ws_pc, fu_pc, fc_pc, client_conn, upstream_conn, connect_attempts,
            message, data, from_upstream_rx, to_client_tx, from_client_rx,
            to_upstream_tx, fu_end, fc_end>>
metVars == <<metrics, metrics_lock, th_pc, th_op, th_tmp, th_lines, th_snap,
             th_result, calls_made, returned_api, returned_ws, recorded_default,
             recorded_other>>
urlVars == <<client_query, client_headers, upstream_ws_url>>
mgrVars == <<shared_memory, instances>>
memVars == <<mm_history, mm_result, ra_callers, ra_pc, ra_call, ra_mm, ra_history>>
vars == <<startVars, httpVars, wsVars, urlVars, metVars, mgrVars, memVars>>

(***************************************************************************)
(* Bounds of the model.                                                    *)
(***************************************************************************)
\* frames received per direction of one relay pairing
MaxFrames == 2

(***************************************************************************)
(* Python values.  An optional text is a record, so that an absent value   *)
(* and an empty text are different values, as None and "" are.             *)
(***************************************************************************)
NoneVal == [some |-> FALSE, v |-> ""]
Some(v) == [some |-> TRUE, v |-> v]
PyStr(v) == [t |-> "str", v |-> v]
PyBytes(v) == [t |-> "bytes", v |-> v]
NoMessage == [t |-> "none", v |-> ""]

IsPrefix(s, t) == Len(s) <= Len(t) /\ SubSeq(t, 1, Len(s)) = s

UpperLetters ==
    <<"A", "B", "C", "D", "E", "F", "G", "H", "I", "J", "K", "L", "M",
      "N", "O", "P", "Q", "R", "S", "T", "U", "V", "W", "X", "Y", "Z">>
LowerLetters ==
    <<"a", "b", "c", "d", "e", "f", "g", "h", "i", "j", "k", "l", "m",
      "n", "o", "p", "q", "r", "s", "t", "u", "v", "w", "x", "y", "z">>

\* str.lower()
LowerChar(c) ==
    IF \E i \in 1..26 : UpperLetters[i] = c
    THEN LowerLetters[CHOOSE i \in 1..26 : UpperLetters[i] = c]
    ELSE c
Lower(s) == [i \in 1..Len(s) |-> LowerChar(s[i])]


NXApiKey == <<"X", "-", "A", "P", "I", "-", "K", "e", "y">>

\* the alias of the x_api_key parameter, Header(None) of line 107
KxApiKey == <<"x", "-", "a", "p", "i", "-", "k", "e", "y">>

SeqsUpTo(S, n) == UNION {[1..m -> S] : m \in 0..n}

\* lines 115 and 162: {k.lower(): v for k, v in ....headers.items()}; a later
\* item replaces an earlier one of the same key
Incoming(hs) ==
    [key \in {Lower(hs[i].k) : i \in 1..Len(hs)} |->
        hs[CHOOSE i \in 1..Len(hs) :
              /\ Lower(hs[i].k) = key
              /\ \A j \in (i + 1)..Len(hs) : Lower(hs[j].k) # key].v]

\* lines 117-122 and 173: `if "<key>" in incoming`
Has(incoming, key) == key \in DOMAIN incoming

(***************************************************************************)
(* proxy_ws: the WebSocket relay, main.py:154-258.                         *)
(*                                                                         *)
(* A frame is its type and its payload.  The client connection is "open",  *)
(* "peer_gone" (the client went away) or "closed" (the proxy closed it);   *)
(* upstream_ws is "none" (never opened), "open", "peer_closed" or          *)
(* "closed".  A send on a connection that is not open raises, a receive on *)
(* it reports the end of the connection; close() is idempotent and leaves  *)
(* the connection not open.                                                *)
(***************************************************************************)
Payloads == {"", "a"}
Frames == [kind : {"text", "bytes"}, payload : Payloads]
TextFrame(p) == [kind |-> "text", payload |-> p]
BinaryFrame(p) == [kind |-> "bytes", payload |-> p]

\* ErrorFrame with the error of another failure stage.
ErrorFrameUnauthorized == TextFrame("{\"type\": \"error\", \"error\": \"unauthorized\"}")

\* json.dumps({"type": "error", "error": "upstream_connection_failed"})
ErrorFrame == TextFrame("{\"type\": \"error\", \"error\": \"upstream_connection_failed\"}")

NoData == [type |-> "none", text |-> NoneVal, bytes |-> NoneVal]
DisconnectEvent == [type |-> "websocket.disconnect", text |-> NoneVal, bytes |-> NoneVal]

\* The ASGI event websocket.receive() returns for a frame of the client.
ReceiveEvent(f) ==
    [type |-> "websocket.receive",
     text |-> IF f.kind = "text" THEN Some(f.payload) ELSE NoneVal,
     bytes |-> IF f.kind = "bytes" THEN Some(f.payload) ELSE NoneVal]

\* What `async for message in upstream_ws` yields for a frame: str for a
\* text frame, bytes for a binary one.
Yielded(f) == IF f.kind = "text" THEN PyStr(f.payload) ELSE PyBytes(f.payload)

\* upstream_ws.send(x): a str goes out as a text frame, bytes as a binary one.
UpstreamSendFrame(x) == IF x.t = "str" THEN TextFrame(x.v) ELSE BinaryFrame(x.v)

\* CloseConn of a close() that closes nothing.
CloseConnNothing(c) == c

\* websocket.close() and upstream_ws.close()
CloseConn(c) == IF c = "open" THEN "closed" ELSE c

\* from_upstream, lines 189-201: isinstance(message, (bytes, bytearray))
\* chooses send_bytes, anything else send_text.
ClientSendFrame(m) == IF m.t = "bytes" THEN BinaryFrame(m.v) ELSE TextFrame(m.v)

\* Dispatch with `if data["text"]` for `data["text"] is not None`.
DispatchTruthy(d) ==
    IF d.type = "websocket.disconnect" THEN "disconnect"
    ELSE IF d.text.some /\ d.text.v # "" THEN "send_text"
    ELSE IF d.bytes.some /\ d.bytes.v # "" THEN "send_bytes"
    ELSE "skip"

\* from_client, lines 217-234: what the loop does with a received event.
Dispatch(d) ==
    IF d.type = "websocket.disconnect" THEN "disconnect"
    ELSE IF d.text.some THEN "send_text"
    ELSE IF d.bytes.some THEN "send_bytes"
    ELSE "skip"

\* from_client, lines 227 and 232: the value handed to upstream_ws.send.
ForwardValue(d) ==
    IF Dispatch(d) = "send_text" THEN PyStr(d.text.v) ELSE PyBytes(d.bytes.v)

\* query items of a /ws/ai-chat client
MaxQuery == 2
\* headers of a /ws/ai-chat client
MaxWsHeaders == 1

\* the key of lines 173-174
KapiKey == <<"a", "p", "i", "_", "k", "e", "y">>
QueryItems == [k : {KapiKey, <<"q">>}, v : {<<>>, <<"1">>, <<"a", " ">>}]
WsHeaders == [k : {NXApiKey, <<"h", "o", "s", "t">>}, v : {<<"h">>, <<"a", " ">>}]

\* line 161, dict(websocket.query_params): a dict holds one item per name,
\* at the place of the name's first occurrence, with the value of its last
IncomingQuery(items) ==
    LET firsts == {i \in 1..Len(items) : \A j \in 1..(i - 1) : items[j].k # items[i].k}
        LastOf(k) == CHOOSE i \in 1..Len(items) :
                        /\ items[i].k = k
                        /\ \A j \in (i + 1)..Len(items) : items[j].k # k
    IN [r \in 1..Cardinality(firsts) |->
          LET i == CHOOSE i \in firsts : Cardinality({j \in firsts : j < i}) = r - 1
          IN [k |-> items[i].k, v |-> items[LastOf(items[i].k)].v]]

\* lines 165-166: urlparse(RELAY_UPSTREAM).scheme, "wss" for https
WsScheme(upstream) ==
    IF Len(upstream) >= 2 /\ upstream[2] = "://" /\ upstream[1] = "https"
    THEN "wss" ELSE "ws"

\* line 167: urlparse(RELAY_UPSTREAM).netloc
Netloc(upstream) ==
    IF Len(upstream) >= 3 /\ upstream[2] = "://" THEN upstream[3] ELSE ""

\* lines 171-174
Qparams(incoming_query, incoming_headers) ==
    IF (\A i \in 1..Len(incoming_query) : incoming_query[i].k # KapiKey)
       /\ Has(incoming_headers, KxApiKey)
    THEN Append(incoming_query, [k |-> KapiKey, v |-> incoming_headers[KxApiKey]])
    ELSE incoming_query

\* quote_plus, as urlencode applies it: a blank becomes "+"; letters,
\* digits and "_" stay
QuotePlus(t) == [i \in 1..Len(t) |-> IF t[i] = " " THEN "+" ELSE t[i]]

\* line 177, urlencode(qparams): name=value items joined by "&"
RECURSIVE Urlencode(_)
Urlencode(d) ==
    IF d = <<>> THEN <<>>
    ELSE LET item == QuotePlus(d[1].k) \o <<"=">> \o QuotePlus(d[1].v)
         IN IF Len(d) = 1 THEN item ELSE item \o <<"&">> \o Urlencode(Tail(d))

\* line 177, urlunparse((scheme, netloc, path, "", query, "")): no "?"
\* before an empty query
Urlunparse(scheme, netloc, path, query) ==
    <<scheme, "://", netloc, path>> \o (IF query = <<>> THEN <<>> ELSE <<"?">> \o query)

WsIdle ==
    /\ ws_pc = "idle" /\ fu_pc = "none" /\ fc_pc = "none"
    /\ client_conn = "none" /\ upstream_conn = "none"
    /\ connect_attempts = 0
    /\ message = NoMessage /\ data = NoData
    /\ from_upstream_rx = <<>> /\ to_client_tx = <<>>
    /\ from_client_rx = <<>> /\ to_upstream_tx = <<>>
    /\ fu_end = "none" /\ fc_end = "none"
    /\ client_query = <<>> /\ client_headers = <<>> /\ upstream_ws_url = <<>>

\* A client has asked for /ws/ai-chat; the handler is about to run.
WsRequest(query, hs) ==
    /\ ws_pc = "accept" /\ fu_pc = "none" /\ fc_pc = "none"
    /\ client_conn = "connecting" /\ upstream_conn = "none"
    /\ connect_attempts = 0
    /\ message = NoMessage /\ data = NoData
    /\ from_upstream_rx = <<>> /\ to_client_tx = <<>>
    /\ from_client_rx = <<>> /\ to_upstream_tx = <<>>
    /\ fu_end = "none" /\ fc_end = "none"
    /\ client_query = query /\ client_headers = hs /\ upstream_ws_url = <<>>

\* the client sent no query and no header of its own
WsInit == WsRequest(<<>>, <<>>)

WsOnly == UNCHANGED <<startVars, httpVars, urlVars, metVars, mgrVars, memVars>>

\* lines 160-179: accept, then build the upstream URL
WsAccept ==
    /\ ws_pc = "accept"
    /\ ws_pc' = "connect"
    /\ client_conn' = "open"
    /\ upstream_ws_url' =
          Urlunparse(WsScheme(RELAY_UPSTREAM.text), Netloc(RELAY_UPSTREAM.text),
                     "/ws/ai-chat",
                     Urlencode(Qparams(IncomingQuery(client_query),
                                       Incoming(client_headers))))
    /\ UNCHANGED <<fu_pc, fc_pc, upstream_conn, connect_attempts, message, data,
                   from_upstream_rx, to_client_tx, from_client_rx, to_upstream_tx,
                   fu_end, fc_end, client_query, client_headers>>
    /\ UNCHANGED <<startVars, httpVars, metVars, mgrVars, memVars>>

\* WsConnectOk where an exception leaves the `async with` block as soon as
\* the connection is established.
WsConnectOkThenRaises ==
    /\ ws_pc = "connect"
    /\ connect_attempts' = connect_attempts + 1
    /\ upstream_conn' = "open"
    /\ ws_pc' = "err_send"
    /\ UNCHANGED <<fu_pc, fc_pc, client_conn, message, data, from_upstream_rx,
                   to_client_tx, from_client_rx, to_upstream_tx, fu_end, fc_end>>
    /\ WsOnly

\* line 183, the connection is established: both loops start (line 247)
WsConnectOk ==
    /\ ws_pc = "connect"
    /\ connect_attempts' = connect_attempts + 1
    /\ upstream_conn' = "open"
    /\ ws_pc' = "relay"
    /\ fu_pc' = "recv"
    /\ fc_pc' = "recv"
    /\ UNCHANGED <<client_conn, message, data, from_upstream_rx, to_client_tx,
                   from_client_rx, to_upstream_tx, fu_end, fc_end>>
    /\ WsOnly

\* line 183 raises: control goes to the handler of line 248
WsConnectFails ==
    /\ ws_pc = "connect"
    /\ connect_attempts' = connect_attempts + 1
    /\ ws_pc' = "err_send"
    /\ UNCHANGED <<fu_pc, fc_pc, client_conn, upstream_conn, message, data,
                   from_upstream_rx, to_client_tx, from_client_rx, to_upstream_tx,
                   fu_end, fc_end>>
    /\ WsOnly

\* lines 250-254: send_text of the error frame; a failure is swallowed
WsErrSend ==
    /\ ws_pc = "err_send"
    /\ to_client_tx' = IF client_conn = "open"
                         THEN Append(to_client_tx, ErrorFrame)
                         ELSE to_client_tx
    /\ ws_pc' = "err_close"
    /\ UNCHANGED <<fu_pc, fc_pc, client_conn, upstream_conn, connect_attempts,
                   message, data, from_upstream_rx, from_client_rx, to_upstream_tx,
                   fu_end, fc_end>>
    /\ WsOnly

\* lines 255-258
WsErrClose ==
    /\ ws_pc = "err_close"
    /\ client_conn' = CloseConn(client_conn)
    /\ ws_pc' = "done"
    /\ UNCHANGED <<fu_pc, fc_pc, upstream_conn, connect_attempts, message, data,
                   from_upstream_rx, to_client_tx, from_client_rx, to_upstream_tx,
                   fu_end, fc_end>>
    /\ WsOnly

\* line 247 returns once both loops have ended; leaving `async with`
\* (line 183) closes upstream_ws
WsExitContext ==
    /\ ws_pc = "relay" /\ fu_pc = "done" /\ fc_pc = "done"
    /\ upstream_conn' = CloseConn(upstream_conn)
    /\ ws_pc' = "done"
    /\ UNCHANGED <<fu_pc, fc_pc, client_conn, connect_attempts, message, data,
                   from_upstream_rx, to_client_tx, from_client_rx, to_upstream_tx,
                   fu_end, fc_end>>
    /\ WsOnly

\* The client goes away (the peer of the client connection).
ClientGoes ==
    /\ client_conn = "open"
    /\ client_conn' = "peer_gone"
    /\ UNCHANGED <<ws_pc, fu_pc, fc_pc, upstream_conn, connect_attempts, message,
                   data, from_upstream_rx, to_client_tx, from_client_rx,
                   to_upstream_tx, fu_end, fc_end>>
    /\ WsOnly

\* The upstream closes or loses the connection.
UpstreamGoes ==
    /\ upstream_conn = "open"
    /\ upstream_conn' = "peer_closed"
    /\ UNCHANGED <<ws_pc, fu_pc, fc_pc, client_conn, connect_attempts, message,
                   data, from_upstream_rx, to_client_tx, from_client_rx,
                   to_upstream_tx, fu_end, fc_end>>
    /\ WsOnly

(***************************************************************************)
(* from_upstream, main.py:185-211                                          *)
(***************************************************************************)
\* line 187: the next frame of the upstream
FuRecvMessage ==
    /\ fu_pc = "recv"
    /\ upstream_conn = "open"
    /\ Len(from_upstream_rx) < MaxFrames
    /\ \E f \in Frames :
          /\ message' = Yielded(f)
          /\ from_upstream_rx' = Append(from_upstream_rx, f)
    /\ fu_pc' = "send"
    /\ UNCHANGED <<ws_pc, fc_pc, client_conn, upstream_conn, connect_attempts, data,
                   to_client_tx, from_client_rx, to_upstream_tx, fu_end, fc_end>>
    /\ WsOnly

\* line 187 on a connection that is over: the iteration ends (a normal
\* closure), or raises ConnectionClosed (line 202) or another error (line 204)
FuRecvEnds ==
    /\ fu_pc = "recv"
    /\ upstream_conn # "open"
    /\ \E why \in {"upstream_closed", "connection_closed", "upstream_error"} :
          fu_end' = why
    /\ fu_pc' = "finally"
    /\ UNCHANGED <<ws_pc, fc_pc, client_conn, upstream_conn, connect_attempts,
                   message, data, from_upstream_rx, to_client_tx, from_client_rx,
                   to_upstream_tx, fc_end>>
    /\ WsOnly

\* lines 191 and 198: the frame goes to the client, in kind
FuSendOk ==
    /\ fu_pc = "send"
    /\ client_conn = "open"
    /\ to_client_tx' = Append(to_client_tx, ClientSendFrame(message))
    /\ fu_pc' = "recv"
    /\ UNCHANGED <<ws_pc, fc_pc, client_conn, upstream_conn, connect_attempts,
                   message, data, from_upstream_rx, from_client_rx, to_upstream_tx,
                   fu_end, fc_end>>
    /\ WsOnly

\* lines 192 and 199: the send to the client raises
FuSendFails ==
    /\ fu_pc = "send"
    /\ client_conn # "open"
    /\ fu_pc' = "close_up"
    /\ UNCHANGED <<ws_pc, fc_pc, client_conn, upstream_conn, connect_attempts,
                   message, data, from_upstream_rx, to_client_tx, from_client_rx,
                   to_upstream_tx, fu_end, fc_end>>
    /\ WsOnly

\* lines 194-195 and 200-201: close upstream_ws, break
FuCloseUpstream ==
    /\ fu_pc = "close_up"
    /\ upstream_conn' = CloseConn(upstream_conn)
    /\ fu_end' = "client_send_failed"
    /\ fu_pc' = "finally"
    /\ UNCHANGED <<ws_pc, fc_pc, client_conn, connect_attempts, message, data,
                   from_upstream_rx, to_client_tx, from_client_rx, to_upstream_tx,
                   fc_end>>
    /\ WsOnly

\* lines 206-211: close the client side
FuFinally ==
    /\ fu_pc = "finally"
    /\ client_conn' = CloseConn(client_conn)
    /\ fu_pc' = "done"
    /\ UNCHANGED <<ws_pc, fc_pc, upstream_conn, connect_attempts, message, data,
                   from_upstream_rx, to_client_tx, from_client_rx, to_upstream_tx,
                   fu_end, fc_end>>
    /\ WsOnly

(***************************************************************************)
(* from_client, main.py:213-245                                            *)
(***************************************************************************)
\* AfterDispatch with a disconnect that breaks without closing upstream_ws.
AfterDispatchNoClose(d) ==
    CASE Dispatch(d) = "disconnect" -> "done"
      [] Dispatch(d) = "skip" -> "recv"
      [] OTHER -> "send"

\* The position after lines 217-234 have looked at the event.
AfterDispatch(d) ==
    CASE Dispatch(d) = "disconnect" -> "close_up"
      [] Dispatch(d) = "skip" -> "recv"
      [] OTHER -> "send"

\* lines 216-225/230: a text or binary frame of the client
FcRecvData ==
    /\ fc_pc = "recv"
    /\ client_conn = "open"
    /\ Len(from_client_rx) < MaxFrames
    /\ \E f \in Frames :
          /\ data' = ReceiveEvent(f)
          /\ from_client_rx' = Append(from_client_rx, f)
    /\ fc_pc' = AfterDispatch(data')
    /\ UNCHANGED <<ws_pc, fu_pc, client_conn, upstream_conn, connect_attempts,
                   message, from_upstream_rx, to_client_tx, to_upstream_tx,
                   fu_end, fc_end>>
    /\ WsOnly

\* lines 216-218: the websocket.disconnect event
FcRecvDisconnect ==
    /\ fc_pc = "recv"
    /\ client_conn # "open"
    /\ data' = DisconnectEvent
    /\ fc_end' = "disconnect_event"
    /\ fc_pc' = AfterDispatch(data')
    /\ UNCHANGED <<ws_pc, fu_pc, client_conn, upstream_conn, connect_attempts,
                   message, from_upstream_rx, to_client_tx, from_client_rx,
                   to_upstream_tx, fu_end>>
    /\ WsOnly

\* line 216 raises: WebSocketDisconnect (line 235) or another error (line 240)
FcRecvRaises ==
    /\ fc_pc = "recv"
    /\ client_conn # "open"
    /\ \E why \in {"ws_disconnect_exc", "recv_error"} : fc_end' = why
    /\ fc_pc' = "close_up"
    /\ UNCHANGED <<ws_pc, fu_pc, client_conn, upstream_conn, connect_attempts,
                   message, data, from_upstream_rx, to_client_tx, from_client_rx,
                   to_upstream_tx, fu_end>>
    /\ WsOnly

\* lines 227 and 232: the payload goes to the upstream, in kind
FcSendOk ==
    /\ fc_pc = "send"
    /\ upstream_conn = "open"
    /\ to_upstream_tx' = Append(to_upstream_tx, UpstreamSendFrame(ForwardValue(data)))
    /\ fc_pc' = "recv"
    /\ UNCHANGED <<ws_pc, fu_pc, client_conn, upstream_conn, connect_attempts,
                   message, data, from_upstream_rx, to_client_tx, from_client_rx,
                   fu_end, fc_end>>
    /\ WsOnly

\* FcSendFails of a loop that goes on after the failure.
FcSendFailsGoesOn ==
    /\ fc_pc = "send"
    /\ upstream_conn # "open"
    /\ fc_end' = "send_failed"
    /\ fc_pc' = "recv"
    /\ UNCHANGED <<ws_pc, fu_pc, client_conn, upstream_conn, connect_attempts,
                   message, data, from_upstream_rx, to_client_tx, from_client_rx,
                   to_upstream_tx, fu_end>>
    /\ WsOnly

\* lines 228-229 and 233-234: the send raises, break
FcSendFails ==
    /\ fc_pc = "send"
    /\ upstream_conn # "open"
    /\ fc_end' = "send_failed"
    /\ fc_pc' = "done"
    /\ UNCHANGED <<ws_pc, fu_pc, client_conn, upstream_conn, connect_attempts,
                   message, data, from_upstream_rx, to_client_tx, from_client_rx,
                   to_upstream_tx, fu_end>>
    /\ WsOnly

\* lines 220-224, 236-239 and 242-245: close upstream_ws, leave the loop
FcCloseUpstream ==
    /\ fc_pc = "close_up"
    /\ upstream_conn' = CloseConn(upstream_conn)
    /\ fc_pc' = "done"
    /\ UNCHANGED <<ws_pc, fu_pc, client_conn, connect_attempts, message, data,
                   from_upstream_rx, to_client_tx, from_client_rx, to_upstream_tx,
                   fu_end, fc_end>>
    /\ WsOnly

FromUpstream ==
    \/ FuRecvMessage \/ FuRecvEnds \/ FuSendOk \/ FuSendFails
    \/ FuCloseUpstream \/ FuFinally

FromClient ==
    \/ FcRecvData \/ FcRecvDisconnect \/ FcRecvRaises \/ FcSendOk
    \/ FcSendFails \/ FcCloseUpstream

NextWS ==
    \/ WsAccept \/ WsConnectOk \/ WsConnectFails \/ WsErrSend \/ WsErrClose
    \/ WsExitContext \/ ClientGoes \/ UpstreamGoes
    \/ FromUpstream \/ FromClient

(***************************************************************************)
(* Module load of main.py, lines 25-67, and the routes.                    *)
(*                                                                         *)
(* A text is a sequence of symbols.  The symbols of an environment text    *)
(* are the comma, the blank and symbols that are neither; each of the five *)
(* default origins is one symbol of the third kind, so a text of two of    *)
(* them without a comma between is one origin that is no default.          *)
(***************************************************************************)
\* length of the FRONTEND_ORIGIN texts SpecOrigins enumerates
MaxEnvLen == 5
\* answers of root_health
MaxHealth == 2

Unset == [set |-> FALSE, text |-> <<>>]
SetTo(t) == [set |-> TRUE, text |-> t]

\* Truthy as `x is not None`.
TruthyIsSet(o) == o.set

\* `if x` / `not x` of an Optional[str]
Truthy(o) == o.set /\ o.text # <<>>

Range(s) == {s[i] : i \in 1..Len(s)}

O3000 == <<"http://localhost:3000">>
O5173 == <<"http://localhost:5173">>
O8000 == <<"http://localhost:8000">>
O8080 == <<"http://localhost:8080">>
O32100 == <<"http://localhost:32100">>

\* lines 44-50
Fallbacks == <<O3000, O5173, O8000, O8080, O32100>>

\* line 33
DefaultFrontendOrigin ==
    O3000 \o <<",">> \o O5173 \o <<",">> \o O8000 \o <<",">> \o O8080
          \o <<",">> \o O32100

OriginSymbols == {O3000[1], O5173[1], O8000[1], O8080[1], O32100[1], ",", " "}

\* os.getenv(name, default)
GetEnv(e, name, default) == IF e[name].set THEN e[name].text ELSE default

\* str.split(","): the parts between the commas, at least one part
RECURSIVE SplitComma(_)
SplitComma(s) ==
    IF \A i \in 1..Len(s) : s[i] # ","
    THEN <<s>>
    ELSE LET i == CHOOSE k \in 1..Len(s) :
                     s[k] = "," /\ \A j \in 1..(k - 1) : s[j] # ","
         IN <<SubSeq(s, 1, i - 1)>> \o SplitComma(SubSeq(s, i + 1, Len(s)))

\* str.strip(): no blank at either end
RECURSIVE Strip(_)
Strip(s) ==
    IF s # <<>> /\ Head(s) = " " THEN Strip(Tail(s))
    ELSE IF s # <<>> /\ s[Len(s)] = " " THEN Strip(SubSeq(s, 1, Len(s) - 1))
    ELSE s

\* KeepOrigin without the membership test.
KeepOriginNoDedup(p, acc) == p # <<>>

\* line 40: `if p and p not in ALLOWED_ORIGINS`
KeepOrigin(p, acc) == p # <<>> /\ p \notin Range(acc)

\* lines 39-41, one iteration: the list after `part` (the list and the
\* stripped part are bound as values, each computed once)
AfterPart(part, acc) ==
    CHOOSE r \in {IF KeepOrigin(p, a) THEN Append(a, p) ELSE a :
                     p \in {Strip(part)}, a \in {acc}} : TRUE

\* lines 51-52, one iteration: the list after the fallback `fb`
AfterFallback(fb, acc) ==
    CHOOSE r \in {IF fb \notin Range(a) THEN Append(a, fb) ELSE a :
                     a \in {acc}} : TRUE

\* lines 37-41: the loop over the parts of FRONTEND_ORIGIN
RECURSIVE EnvOriginsLoop(_, _)
EnvOriginsLoop(parts, acc) ==
    IF parts = <<>> THEN acc
    ELSE EnvOriginsLoop(Tail(parts), AfterPart(Head(parts), acc))

EnvOrigins(text) == EnvOriginsLoop(SplitComma(text), <<>>)

\* lines 44-52: the loop over the fallbacks
RECURSIVE EnsureFallbacks(_, _)
EnsureFallbacks(fallbacks, acc) ==
    IF fallbacks = <<>> THEN acc
    ELSE EnsureFallbacks(Tail(fallbacks), AfterFallback(Head(fallbacks), acc))

\* lines 37-52
BuildOrigins(text) == EnsureFallbacks(Fallbacks, EnvOrigins(text))

\* ",".join(list)
RECURSIVE JoinComma(_)
JoinComma(l) ==
    IF l = <<>> THEN <<>>
    ELSE IF Len(l) = 1 THEN l[1]
    ELSE l[1] \o <<",">> \o JoinComma(Tail(l))

\* int(text) of line 30: blanks around, an optional sign, decimal digits
Digits == <<"0", "1", "2", "3", "4", "5", "6", "7", "8", "9">>
IsDigit(c) == \E d \in 1..10 : Digits[d] = c
DigitValue(c) == (CHOOSE d \in 1..10 : Digits[d] = c) - 1
Unsigned(s) == IF s # <<>> /\ Head(s) \in {"+", "-"} THEN Tail(s) ELSE s
IsIntText(s) ==
    LET u == Unsigned(Strip(s))
    IN u # <<>> /\ \A i \in 1..Len(u) : IsDigit(u[i])
RECURSIVE DecimalValue(_)
DecimalValue(u) ==
    IF u = <<>> THEN 0
    ELSE 10 * DecimalValue(SubSeq(u, 1, Len(u) - 1)) + DigitValue(u[Len(u)])
IntOf(s) ==
    LET t == Strip(s)
    IN IF t # <<>> /\ Head(t) = "-" THEN 0 - DecimalValue(Unsigned(t))
       ELSE DecimalValue(Unsigned(t))

\* line 30: os.getenv("RELAY_PORT", os.getenv("PORT", "8000"))
PortText(e) == GetEnv(e, "RELAY_PORT", GetEnv(e, "PORT", <<"8", "0", "0", "0">>))

HttpUpstream == <<"http", "://", "localhost:8001">>
HttpsUpstream == <<"https", "://", "relay.example">>

AllRoutes == {"/api/execute_method", "/ws/ai-chat", "/", "/metrics"}

EnvNames == {"RELAY_UPSTREAM", "RELAY_PORT", "PORT", "FRONTEND_ORIGIN"}

StartOnly == UNCHANGED <<httpVars, wsVars, urlVars, metVars, mgrVars, memVars>>

\* lines 26-28, RELAY_UPSTREAM is set to a text that is not empty
LoadUpstream ==
    /\ load_pc = "start"
    /\ Truthy(env["RELAY_UPSTREAM"])
    /\ RELAY_UPSTREAM' = env["RELAY_UPSTREAM"]
    /\ load_pc' = "port"
    /\ UNCHANGED <<env, RELAY_PORT, FRONTEND_ORIGIN, ALLOWED_ORIGINS, routes,
                   health_served>>
    /\ StartOnly

\* lines 26-28, `not RELAY_UPSTREAM`: RuntimeError, the load ends there
UpstreamMissing ==
    /\ load_pc = "start"
    /\ ~Truthy(env["RELAY_UPSTREAM"])
    /\ RELAY_UPSTREAM' = env["RELAY_UPSTREAM"]
    /\ load_pc' = "fatal_config"
    /\ UNCHANGED <<env, RELAY_PORT, FRONTEND_ORIGIN, ALLOWED_ORIGINS, routes,
                   health_served>>
    /\ StartOnly

\* line 30
ParsePort ==
    /\ load_pc = "port"
    /\ IsIntText(PortText(env))
    /\ RELAY_PORT' = IntOf(PortText(env))
    /\ load_pc' = "origins"
    /\ UNCHANGED <<env, RELAY_UPSTREAM, FRONTEND_ORIGIN, ALLOWED_ORIGINS, routes,
                   health_served>>
    /\ StartOnly

\* line 30, int() raises ValueError: the load ends there
PortInvalid ==
    /\ load_pc = "port"
    /\ ~IsIntText(PortText(env))
    /\ load_pc' = "fatal_port"
    /\ UNCHANGED <<env, RELAY_UPSTREAM, RELAY_PORT, FRONTEND_ORIGIN,
                   ALLOWED_ORIGINS, routes, health_served>>
    /\ StartOnly

\* lines 31-34
ReadFrontendOrigin ==
    /\ load_pc = "origins"
    /\ FRONTEND_ORIGIN' = GetEnv(env, "FRONTEND_ORIGIN", DefaultFrontendOrigin)
    /\ load_pc' = "build"
    /\ UNCHANGED <<env, RELAY_UPSTREAM, RELAY_PORT, ALLOWED_ORIGINS, routes,
                   health_served>>
    /\ StartOnly

\* lines 37-52
BuildAllowedOrigins ==
    /\ load_pc = "build"
    /\ ALLOWED_ORIGINS' = BuildOrigins(FRONTEND_ORIGIN)
    /\ load_pc' = "app"
    /\ UNCHANGED <<env, RELAY_UPSTREAM, RELAY_PORT, FRONTEND_ORIGIN, routes,
                   health_served>>
    /\ StartOnly

\* lines 57-269: the app, its middleware, `_memory = get_memory_manager()`
\* of line 67 (the first call: the instance is constructed) and every
\* decorated route
CreateApp ==
    /\ load_pc = "app"
    /\ routes' = AllRoutes
    /\ shared_memory' = IF shared_memory = 0 THEN Len(instances) + 1 ELSE shared_memory
    /\ instances' = IF shared_memory = 0 THEN Append(instances, <<>>) ELSE instances
    /\ load_pc' = "serving"
    /\ UNCHANGED <<env, RELAY_UPSTREAM, RELAY_PORT, FRONTEND_ORIGIN,
                   ALLOWED_ORIGINS, health_served>>
    /\ UNCHANGED <<httpVars, wsVars, urlVars, metVars, memVars>>

\* root_health, lines 262-264
RootHealth ==
    /\ load_pc = "serving"
    /\ "/" \in routes
    /\ health_served < MaxHealth
    /\ health_served' = health_served + 1
    /\ UNCHANGED <<load_pc, env, RELAY_UPSTREAM, RELAY_PORT, FRONTEND_ORIGIN,
                   ALLOWED_ORIGINS, routes>>
    /\ StartOnly

(***************************************************************************)
(* proxy_execute_method, main.py:106-150.                                  *)
(*                                                                         *)
(* A header name is a text of characters, so that str.lower() is computed  *)
(* on it; a header value and a body are strings.  Headers are a sequence   *)
(* of name/value pairs in the order the mapping yields them.               *)
(***************************************************************************)
\* headers of an inbound request
MaxInHeaders == 2
\* headers of an upstream response
MaxRespHeaders == 2
\* inbound requests handled in one run
MaxRequests == 2

\* lines 70-80
HOP_BY_HOP ==
    {<<"c", "o", "n", "n", "e", "c", "t", "i", "o", "n">>,
     <<"k", "e", "e", "p", "-", "a", "l", "i", "v", "e">>,
     <<"p", "r", "o", "x", "y", "-", "a", "u", "t", "h", "e", "n", "t", "i", "c", "a", "t", "e">>,
     <<"p", "r", "o", "x", "y", "-", "a", "u", "t", "h", "o", "r", "i", "z", "a", "t", "i", "o", "n">>,
     <<"t", "e">>,
     <<"t", "r", "a", "i", "l", "e", "r", "s">>,
     <<"t", "r", "a", "n", "s", "f", "e", "r", "-", "e", "n", "c", "o", "d", "i", "n", "g">>,
     <<"u", "p", "g", "r", "a", "d", "e">>,
     <<"c", "o", "n", "t", "e", "n", "t", "-", "l", "e", "n", "g", "t", "h">>}

\* the keys of `incoming` read by lines 117-125
Korigin == <<"o", "r", "i", "g", "i", "n">>
Kacrm ==
    <<"a", "c", "c", "e", "s", "s", "-", "c", "o", "n", "t", "r", "o", "l",
      "-", "r", "e", "q", "u", "e", "s", "t", "-", "m", "e", "t", "h", "o",
      "d">>
Kacrh ==
    <<"a", "c", "c", "e", "s", "s", "-", "c", "o", "n", "t", "r", "o", "l",
      "-", "r", "e", "q", "u", "e", "s", "t", "-", "h", "e", "a", "d", "e",
      "r", "s">>
KcontentType == <<"c", "o", "n", "t", "e", "n", "t", "-", "t", "y", "p", "e">>

\* the names written into headers_to_send by lines 118-128
NOrigin == <<"O", "r", "i", "g", "i", "n">>
NAcrm ==
    <<"A", "c", "c", "e", "s", "s", "-", "C", "o", "n", "t", "r", "o", "l",
      "-", "R", "e", "q", "u", "e", "s", "t", "-", "M", "e", "t", "h", "o",
      "d">>
NAcrh ==
    <<"A", "c", "c", "e", "s", "s", "-", "C", "o", "n", "t", "r", "o", "l",
      "-", "R", "e", "q", "u", "e", "s", "t", "-", "H", "e", "a", "d", "e",
      "r", "s">>
NContentType == <<"C", "o", "n", "t", "e", "n", "t", "-", "T", "y", "p", "e">>
\* further names that requests and upstream responses carry
NAuthorization ==
    <<"A", "u", "t", "h", "o", "r", "i", "z", "a", "t", "i", "o", "n">>
NTransferEncoding ==
    <<"T", "r", "a", "n", "s", "f", "e", "r", "-", "E", "n", "c", "o", "d",
      "i", "n", "g">>
NXRequestId == <<"X", "-", "R", "e", "q", "u", "e", "s", "t", "-", "I", "d">>

InHeaderNames ==
    {NOrigin, Korigin, NAcrm, NAcrh, NContentType, NXApiKey, KxApiKey,
     NAuthorization}
InHeaderValues == {"", "a"}
RespHeaderNames ==
    {<<"C", "o", "n", "n", "e", "c", "t", "i", "o", "n">>,
     <<"K", "e", "e", "p", "-", "A", "l", "i", "v", "e">>,
     <<"P", "r", "o", "x", "y", "-", "A", "u", "t", "h", "e", "n", "t", "i", "c", "a", "t", "e">>,
     <<"P", "r", "o", "x", "y", "-", "A", "u", "t", "h", "o", "r", "i", "z", "a", "t", "i", "o", "n">>,
     <<"T", "E">>,
     <<"T", "r", "a", "i", "l", "e", "r", "s">>,
     NTransferEncoding,
     <<"U", "p", "g", "r", "a", "d", "e">>,
     <<"C", "o", "n", "t", "e", "n", "t", "-", "L", "e", "n", "g", "t", "h">>,
     <<"c", "o", "n", "t", "e", "n", "t", "-", "l", "e", "n", "g", "t", "h">>,
     <<"c", "o", "n", "n", "e", "c", "t", "i", "o", "n">>,
     NContentType,
     <<"T", "r", "a", "i", "l", "e", "r">>,
     NXRequestId}
RespHeaderValues == {"v"}
Bodies == {"", "{}"}
Statuses == {200, 401, 429}

InHeaders == [k : InHeaderNames, v : InHeaderValues]
RespHeaders == [k : RespHeaderNames, v : RespHeaderValues]

\* the items of a mapping: no name twice
DistinctNames(hs) == \A i, j \in 1..Len(hs) : i # j => hs[i].k # hs[j].k

NoRequest == [method |-> "none", headers |-> <<>>, body |-> ""]
NoUpstreamResp == [got |-> FALSE, status |-> 0, headers |-> <<>>, content |-> ""]
NoResponse == [status |-> 0, headers |-> <<>>, content |-> "", detail |-> NoneVal]

\* line 135
OptionsTimeout == 10
\* line 145
PostTimeout == 30

\* line 107, x_api_key: Optional[str] = Header(None): the value of the
\* first x-api-key header of the request, None without one
XApiKeyParam(hs) ==
    IF \E i \in 1..Len(hs) : Lower(hs[i].k) = KxApiKey
    THEN Some(hs[CHOOSE i \in 1..Len(hs) :
                    /\ Lower(hs[i].k) = KxApiKey
                    /\ \A j \in 1..(i - 1) : Lower(hs[j].k) # KxApiKey].v)
    ELSE NoneVal

\* GetTruthy as `if "content-type" in incoming`.
GetTruthyPresent(incoming, key) == key \in DOMAIN incoming

\* line 124: `if incoming.get("content-type")`
GetTruthy(incoming, key) == key \in DOMAIN incoming /\ incoming[key] # ""
\* line 127: `if x_api_key`
TruthyStr(o) == o.some /\ o.v # ""

\* lines 116-128: headers_to_send, a mapping from the forwarded name to its value
HeadersToSend(incoming, x_api_key) ==
    LET names == {n \in {NOrigin, NAcrm, NAcrh, NContentType, NXApiKey} :
                    \/ n = NOrigin /\ Has(incoming, Korigin)
                    \/ n = NAcrm /\ Has(incoming, Kacrm)
                    \/ n = NAcrh /\ Has(incoming, Kacrh)
                    \/ n = NContentType /\ GetTruthy(incoming, KcontentType)
                    \/ n = NXApiKey /\ TruthyStr(x_api_key)}
    IN [n \in names |->
          IF n = NOrigin THEN incoming[Korigin]
          ELSE IF n = NAcrm THEN incoming[Kacrm]
          ELSE IF n = NAcrh THEN incoming[Kacrh]
          ELSE IF n = NContentType THEN incoming[KcontentType]
          ELSE x_api_key.v]

\* lines 133-135 and 143-145: the one request made to the upstream
UpstreamRequest(req, hts) ==
    IF req.method = "OPTIONS"
    THEN [method |-> "OPTIONS", headers |-> hts, content |-> NoneVal,
          timeout |-> OptionsTimeout]
    ELSE [method |-> "POST", headers |-> hts, content |-> Some(req.body),
          timeout |-> PostTimeout]

\* KeepHeader without k.lower().
KeepHeaderNoLower(k) == k \notin HOP_BY_HOP

\* lines 140 and 149: the `if` of the comprehension
KeepHeader(k) == Lower(k) \notin HOP_BY_HOP

\* lines 140 and 149: out_headers
OutHeaders(hs) == SelectSeq(hs, LAMBDA h : KeepHeader(h.k))

\* lines 141 and 150
ProxyResponse(resp) ==
    [status |-> resp.status, headers |-> OutHeaders(resp.headers),
     content |-> resp.content, detail |-> NoneVal]

\* BadGateway with the POST branch's detail in both branches.
BadGatewaySameDetail(method) ==
    [status |-> 502, headers |-> <<>>, content |-> "",
     detail |-> Some("Upstream POST failed")]

\* lines 138 and 148: HTTPException(status_code=502, detail=...)
BadGateway(method) ==
    [status |-> 502, headers |-> <<>>, content |-> "",
     detail |-> Some(IF method = "OPTIONS" THEN "Upstream OPTIONS failed"
                     ELSE "Upstream POST failed")]

HttpIdle ==
    /\ http_pc = "idle" /\ request = NoRequest /\ headers_to_send = <<>>
    /\ upstream_calls = 0
    /\ upstream_resp = NoUpstreamResp /\ response = NoResponse
    /\ requests_done = 0

HttpOnly == UNCHANGED <<startVars, wsVars, urlVars, metVars, mgrVars, memVars>>

\* lines 107-130: an OPTIONS or POST request arrives and the headers to
\* forward are built
ReceiveRequest ==
    /\ http_pc = "idle"
    /\ "/api/execute_method" \in routes
    /\ requests_done < MaxRequests
    /\ \E m \in {"OPTIONS", "POST"}, hs \in SeqsUpTo(InHeaders, MaxInHeaders),
          b \in Bodies :
          /\ request' = [method |-> m, headers |-> hs, body |-> b]
          /\ headers_to_send' = HeadersToSend(Incoming(hs), XApiKeyParam(hs))
    /\ upstream_calls' = 0
    /\ upstream_resp' = NoUpstreamResp
    /\ response' = NoResponse
    /\ http_pc' = "built"
    /\ UNCHANGED requests_done
    /\ HttpOnly

\* lines 133-135: the request goes to the upstream; the handler waits at
\* line 135 and reads none of its locals but resp from there on
SendOptions ==
    /\ http_pc = "built"
    /\ request.method = "OPTIONS"
    /\ upstream_calls' = upstream_calls + 1
    /\ request' = NoRequest
    /\ headers_to_send' = <<>>
    /\ http_pc' = "await_options"
    /\ UNCHANGED <<upstream_resp, response, requests_done>>
    /\ HttpOnly

\* lines 142-145: the same for POST, the handler waits at line 145
SendPost ==
    /\ http_pc = "built"
    /\ request.method # "OPTIONS"
    /\ upstream_calls' = upstream_calls + 1
    /\ request' = NoRequest
    /\ headers_to_send' = <<>>
    /\ http_pc' = "await_post"
    /\ UNCHANGED <<upstream_resp, response, requests_done>>
    /\ HttpOnly

\* the method of the branch the handler waits in
AwaitedMethod == IF http_pc = "await_options" THEN "OPTIONS" ELSE "POST"

\* lines 135-141 and 145-150: the upstream answers
UpstreamResponds ==
    /\ http_pc \in {"await_options", "await_post"}
    /\ \E st \in Statuses, hs \in SeqsUpTo(RespHeaders, MaxRespHeaders),
          b \in Bodies :
          /\ DistinctNames(hs)
          /\ upstream_resp' = [got |-> TRUE, status |-> st, headers |-> hs,
                               content |-> b]
    /\ response' = ProxyResponse(upstream_resp')
    /\ http_pc' = IF http_pc = "await_options" THEN "returned_options"
                  ELSE "returned_post"
    /\ UNCHANGED <<request, headers_to_send, upstream_calls, requests_done>>
    /\ HttpOnly

\* lines 136-138 and 146-148: httpx.HTTPError
UpstreamFails ==
    /\ http_pc \in {"await_options", "await_post"}
    /\ upstream_resp' = NoUpstreamResp
    /\ response' = BadGateway(AwaitedMethod)
    /\ http_pc' = IF http_pc = "await_options" THEN "returned_options"
                  ELSE "returned_post"
    /\ UNCHANGED <<request, headers_to_send, upstream_calls, requests_done>>
    /\ HttpOnly

\* the response has gone to the client; the route takes the next request
NextRequest ==
    /\ http_pc \in {"returned_options", "returned_post"}
    /\ requests_done' = requests_done + 1
    /\ upstream_calls' = 0
    /\ upstream_resp' = NoUpstreamResp
    /\ response' = NoResponse
    /\ http_pc' = "idle"
    /\ UNCHANGED <<request, headers_to_send>>
    /\ HttpOnly

NextHTTP ==
    \/ ReceiveRequest \/ SendOptions \/ SendPost \/ UpstreamResponds
    \/ UpstreamFails \/ NextRequest

(***************************************************************************)
(* backend/observability.py: two counters under one lock, and their text.  *)
(*                                                                         *)
(* Callers are threads.  `with _metrics_lock` is an acquire and a release; *)
(* `_metrics[k] += n` is a read and a write.  metrics_lock is the holder,  *)
(* 0 when the lock is free.                                                *)
(***************************************************************************)
\* concurrent callers
NumCallers == 2
\* calls started in one run, over all callers
MaxCalls == 3

Callers == 1..NumCallers
\* observability.py:14 and :19, the default of `amount`
DefaultAmount == 1
Amounts == {-1, DefaultAmount, 2}

NoCall == [op |-> "none", amount |-> 0]
NoSnap == [api |-> 0, ws |-> 0, other |-> 0, handled |-> 0, inflight |-> FALSE]

\* CanAcquire of a lock that excludes nobody.
CanAcquireAlways(lock) == TRUE

\* Lock.acquire: only a free lock is taken
CanAcquire(lock) == lock = 0

\* the counter a call adds to, lines 16 and 21
CounterOf(op) == IF op = "api" THEN "api_calls_total" ELSE "ws_connections_total"

\* the f-string's rendering of an int, lines 33 and 37
RECURSIVE Str(_)
Str(n) ==
    IF n < 0 THEN "-" \o Str(0 - n)
    ELSE IF n < 10 THEN Digits[n + 1]
    ELSE Str(n \div 10) \o Digits[(n % 10) + 1]

\* MetricsLines without the empty strings of lines 34 and 38.
MetricsLinesNoBlank(m) ==
    <<"# HELP relay_api_calls_total Number of /api/execute_method calls received",
      "# TYPE relay_api_calls_total counter",
      "relay_api_calls_total " \o ToString(m["api_calls_total"]),
      "# HELP relay_ws_connections_total Number of WebSocket connections accepted",
      "# TYPE relay_ws_connections_total counter",
      "relay_ws_connections_total " \o ToString(m["ws_connections_total"])>>

\* lines 30-39
MetricsLines(m) ==
    <<"# HELP relay_api_calls_total Number of /api/execute_method calls received",
      "# TYPE relay_api_calls_total counter",
      "relay_api_calls_total " \o Str(m["api_calls_total"]),
      "",
      "# HELP relay_ws_connections_total Number of WebSocket connections accepted",
      "# TYPE relay_ws_connections_total counter",
      "relay_ws_connections_total " \o Str(m["ws_connections_total"]),
      "">>

\* "\n".join(lines), line 40
RECURSIVE JoinLines(_)
JoinLines(lines) ==
    IF lines = <<>> THEN ""
    ELSE IF Len(lines) = 1 THEN lines[1]
    ELSE lines[1] \o "\n" \o JoinLines(Tail(lines))

\* lines 8-11
MetricsStart == [k \in {"api_calls_total", "ws_connections_total"} |-> 0]

MetIdle ==
    /\ metrics = MetricsStart
    /\ metrics_lock = 0
    /\ th_pc = [t \in Callers |-> "idle"]
    /\ th_op = [t \in Callers |-> NoCall]
    /\ th_tmp = [t \in Callers |-> 0]
    /\ th_lines = [t \in Callers |-> <<>>]
    /\ th_snap = [t \in Callers |-> NoSnap]
    /\ th_result = [t \in Callers |-> NoneVal]
    /\ calls_made = 0
    /\ returned_api = 0 /\ returned_ws = 0
    /\ recorded_default = 0 /\ recorded_other = 0

MetOnly == UNCHANGED <<startVars, httpVars, wsVars, urlVars, mgrVars, memVars>>

\* a caller enters increment_api_calls, increment_ws_connections or
\* get_metrics_text
StartCall(t) ==
    /\ th_pc[t] = "idle"
    /\ calls_made < MaxCalls
    /\ \E op \in {"api", "ws"}, a \in Amounts :
          th_op' = [th_op EXCEPT ![t] = [op |-> op, amount |-> a]]
    /\ th_pc' = [th_pc EXCEPT ![t] = "acquire"]
    /\ calls_made' = calls_made + 1
    /\ UNCHANGED <<metrics, metrics_lock, th_tmp, th_lines, th_snap, th_result,
                   returned_api, returned_ws, recorded_default, recorded_other>>
    /\ MetOnly

StartGetMetricsText(t) ==
    /\ th_pc[t] = "idle"
    /\ calls_made < MaxCalls
    /\ th_op' = [th_op EXCEPT ![t] = [op |-> "text", amount |-> 0]]
    /\ th_pc' = [th_pc EXCEPT ![t] = "acquire"]
    /\ th_result' = [th_result EXCEPT ![t] = NoneVal]
    /\ calls_made' = calls_made + 1
    /\ UNCHANGED <<metrics, metrics_lock, th_tmp, th_lines, th_snap,
                   returned_api, returned_ws, recorded_default, recorded_other>>
    /\ MetOnly

\* `with _metrics_lock:` on entry, lines 15, 20 and 29
Acquire(t) ==
    /\ th_pc[t] = "acquire"
    /\ CanAcquire(metrics_lock)
    /\ metrics_lock' = t
    /\ th_pc' = [th_pc EXCEPT ![t] = IF th_op[t].op = "text" THEN "format" ELSE "read"]
    /\ UNCHANGED <<metrics, th_op, th_tmp, th_lines, th_snap, th_result, calls_made,
                   returned_api, returned_ws, recorded_default, recorded_other>>
    /\ MetOnly

\* lines 16 and 21, `+=` reads the counter
ReadCounter(t) ==
    /\ th_pc[t] = "read"
    /\ th_tmp' = [th_tmp EXCEPT ![t] = metrics[CounterOf(th_op[t].op)]]
    /\ th_pc' = [th_pc EXCEPT ![t] = "write"]
    /\ UNCHANGED <<metrics, metrics_lock, th_op, th_lines, th_snap, th_result,
                   calls_made, returned_api, returned_ws, recorded_default,
                   recorded_other>>
    /\ MetOnly

\* lines 16 and 21, `+=` stores the sum; int(amount) of an int is the int
WriteCounter(t) ==
    /\ th_pc[t] = "write"
    /\ metrics' = [metrics EXCEPT ![CounterOf(th_op[t].op)] = th_tmp[t] + th_op[t].amount]
    /\ th_pc' = [th_pc EXCEPT ![t] = "release"]
    /\ UNCHANGED <<metrics_lock, th_op, th_tmp, th_lines, th_snap, th_result,
                   calls_made, returned_api, returned_ws, recorded_default,
                   recorded_other>>
    /\ MetOnly

\* the end of `with` in an increment: the lock is released, the call returns
ReleaseIncrement(t) ==
    /\ th_pc[t] = "release"
    /\ metrics_lock' = 0
    /\ th_pc' = [th_pc EXCEPT ![t] = "idle"]
    /\ returned_api' = returned_api + (IF th_op[t].op = "api" THEN th_op[t].amount ELSE 0)
    /\ returned_ws' = returned_ws + (IF th_op[t].op = "ws" THEN th_op[t].amount ELSE 0)
    /\ recorded_default' = recorded_default +
          (IF th_op[t].op = "api" /\ th_op[t].amount = DefaultAmount THEN 1 ELSE 0)
    /\ recorded_other' = recorded_other +
          (IF th_op[t].op = "api" /\ th_op[t].amount # DefaultAmount THEN 1 ELSE 0)
    /\ UNCHANGED <<metrics, th_op, th_tmp, th_lines, th_snap, th_result, calls_made>>
    /\ MetOnly

\* lines 30-39: the lines are built under the lock
FormatLines(t) ==
    /\ th_pc[t] = "format"
    /\ th_lines' = [th_lines EXCEPT ![t] = MetricsLines(metrics)]
    /\ th_snap' = [th_snap EXCEPT ![t] =
                      [api |-> recorded_default, ws |-> returned_ws,
                       other |-> recorded_other, handled |-> requests_done,
                       inflight |-> http_pc # "idle"]]
    /\ th_pc' = [th_pc EXCEPT ![t] = "release_text"]
    /\ UNCHANGED <<metrics, metrics_lock, th_op, th_tmp, th_result, calls_made,
                   returned_api, returned_ws, recorded_default, recorded_other>>
    /\ MetOnly

\* the end of `with` in get_metrics_text, line 39
ReleaseText(t) ==
    /\ th_pc[t] = "release_text"
    /\ metrics_lock' = 0
    /\ th_pc' = [th_pc EXCEPT ![t] = "join"]
    /\ UNCHANGED <<metrics, th_op, th_tmp, th_lines, th_snap, th_result, calls_made,
                   returned_api, returned_ws, recorded_default, recorded_other>>
    /\ MetOnly

\* line 40
ReturnText(t) ==
    /\ th_pc[t] = "join"
    /\ th_result' = [th_result EXCEPT ![t] = Some(JoinLines(th_lines[t]))]
    /\ th_pc' = [th_pc EXCEPT ![t] = "idle"]
    /\ UNCHANGED <<metrics, metrics_lock, th_op, th_tmp, th_lines, th_snap,
                   calls_made, returned_api, returned_ws, recorded_default,
                   recorded_other>>
    /\ MetOnly

NextMetrics ==
    \E t \in Callers :
        \/ StartCall(t) \/ StartGetMetricsText(t) \/ Acquire(t) \/ ReadCounter(t)
        \/ WriteCounter(t) \/ ReleaseIncrement(t) \/ FormatLines(t)
        \/ ReleaseText(t) \/ ReturnText(t)

(***************************************************************************)
(* MemoryManager, backend/memory_manager.py.                               *)
(*                                                                         *)
(* A _store is the dict's items in insertion order.  A key is a text of    *)
(* tokens; a value is None or a dict.  The calls are made on `_memory`,    *)
(* the instance main.py:67 holds (the first of `instances`).               *)
(***************************************************************************)
\* set, delete and clear calls made on _memory in one run
MaxMemOps == 3

PyNone == [t |-> "NoneType", v |-> ""]
PyDict(v) == [t |-> "dict", v |-> v]
MemValues == {PyNone, PyDict("{}"), PyDict("{x:1}")}

\* AgentKey with one key for every agent.
AgentKeyShared(agent_id) == <<"agent:", ":state">>

\* relay_api.py:26 and :31, f"agent:{agent_id}:state"
AgentKey(agent_id) == <<"agent:">> \o agent_id \o <<":state">>

MemKeys == {<<"k">>, AgentKey(<<"a">>)}

\* line 11
EmptyStore == <<>>

StoreHas(store, key) == \E i \in 1..Len(store) : store[i].k = key
StoreAt(store, key) == CHOOSE i \in 1..Len(store) : store[i].k = key

\* StoreSet that always adds an item.
StoreSetAppend(store, key, value) == Append(store, [k |-> key, v |-> value])

\* line 15, self._store[key] = value
StoreSet(store, key, value) ==
    IF StoreHas(store, key)
    THEN [store EXCEPT ![StoreAt(store, key)] = [k |-> key, v |-> value]]
    ELSE Append(store, [k |-> key, v |-> value])

\* line 19, self._store.get(key, default); line 23, the value of pop(key, None)
StoreGet(store, key, default) ==
    IF StoreHas(store, key) THEN store[StoreAt(store, key)].v ELSE default

\* line 23, the dict after pop(key, None)
StorePop(store, key) == SelectSeq(store, LAMBDA e : e.k # key)

\* line 23, `... is not None`
DeleteResult(store, key) == StoreGet(store, key, PyNone) # PyNone

\* line 31, list(self._store.keys())
StoreKeys(store) == [i \in 1..Len(store) |-> store[i].k]

NoMemResult ==
    [op |-> "none", key |-> <<>>, default |-> PyNone, value |-> PyNone,
     deleted |-> FALSE, keys |-> <<>>]

MemIdle ==
    /\ mm_history = <<>>
    /\ mm_result = NoMemResult
    /\ ra_callers = {}
    /\ ra_pc = <<>> /\ ra_call = <<>> /\ ra_mm = <<>>
    /\ ra_history = <<>>

MemOnly ==
    UNCHANGED <<startVars, httpVars, wsVars, urlVars, metVars, shared_memory,
                ra_callers, ra_pc, ra_call, ra_mm, ra_history>>

\* MemoryManager.set, lines 13-15
MmSet ==
    /\ shared_memory # 0
    /\ Len(mm_history) < MaxMemOps
    /\ \E key \in MemKeys, value \in MemValues :
          /\ instances' = [instances EXCEPT ![1] = StoreSet(@, key, value)]
          /\ mm_history' = Append(mm_history, [op |-> "set", key |-> key, value |-> value])
          /\ mm_result' = [NoMemResult EXCEPT !.op = "set", !.key = key]
    /\ MemOnly

\* MemoryManager.get, lines 17-19; get(key) is get(key, None)
MmGet ==
    /\ shared_memory # 0
    /\ \E key \in MemKeys, default \in {PyNone, PyDict("d")} :
          mm_result' = [NoMemResult EXCEPT !.op = "get", !.key = key,
                                           !.default = default,
                                           !.value = StoreGet(instances[1], key, default)]
    /\ UNCHANGED <<instances, mm_history>>
    /\ MemOnly

\* MemoryManager.delete, lines 21-23
MmDelete ==
    /\ shared_memory # 0
    /\ Len(mm_history) < MaxMemOps
    /\ \E key \in MemKeys :
          /\ instances' = [instances EXCEPT ![1] = StorePop(@, key)]
          /\ mm_history' = Append(mm_history, [op |-> "delete", key |-> key, value |-> PyNone])
          /\ mm_result' = [NoMemResult EXCEPT !.op = "delete", !.key = key,
                                              !.deleted = DeleteResult(instances[1], key)]
    /\ MemOnly

\* MemoryManager.clear, lines 25-27
MmClear ==
    /\ shared_memory # 0
    /\ Len(mm_history) < MaxMemOps
    /\ instances' = [instances EXCEPT ![1] = EmptyStore]
    /\ mm_history' = Append(mm_history, [op |-> "clear", key |-> <<>>, value |-> PyNone])
    /\ mm_result' = [NoMemResult EXCEPT !.op = "clear"]
    /\ MemOnly

\* MemoryManager.keys, lines 29-31
MmKeys ==
    /\ shared_memory # 0
    /\ mm_result' = [NoMemResult EXCEPT !.op = "keys", !.keys = StoreKeys(instances[1])]
    /\ UNCHANGED <<instances, mm_history>>
    /\ MemOnly

NextMemory == MmSet \/ MmGet \/ MmDelete \/ MmClear \/ MmKeys

(***************************************************************************)
(* backend/relay_api.py: get_memory_manager, store_agent_state and         *)
(* load_agent_state, called by the threads of ra_callers.  The test of     *)
(* line 16 and the assignment of line 17 are two steps of a caller.        *)
(***************************************************************************)
\* relay_api calls made in one run
MaxRaCalls == 3

AgentIds == {<<"a">>, <<"b">>}
AgentData == {PyDict("{}"), PyDict("{x:1}")}

NoRaCall == [op |-> "none", agent |-> <<>>, data |-> PyNone]

RaBegun == Len(ra_history) + Cardinality({t \in ra_callers : ra_pc[t] # "idle"})

RaOnly ==
    UNCHANGED <<startVars, httpVars, wsVars, urlVars, metVars, mm_history, mm_result,
                ra_callers>>

\* a caller enters get_memory_manager, store_agent_state or load_agent_state
\* (whose first statement, lines 25 and 30, calls get_memory_manager)
RaCall(t) ==
    /\ ra_pc[t] = "idle"
    /\ RaBegun < MaxRaCalls
    /\ \E c \in {[NoRaCall EXCEPT !.op = "get_memory_manager"]}
              \cup {[op |-> "store_agent_state", agent |-> a, data |-> d] :
                       a \in AgentIds, d \in AgentData}
              \cup {[NoRaCall EXCEPT !.op = "load_agent_state", !.agent = a] :
                       a \in AgentIds} :
          ra_call' = [ra_call EXCEPT ![t] = c]
    /\ ra_pc' = [ra_pc EXCEPT ![t] = "check"]
    /\ UNCHANGED <<shared_memory, instances, ra_mm, ra_history>>
    /\ RaOnly

\* line 16, `if _shared_memory is None`
GmmCheck(t) ==
    /\ ra_pc[t] = "check"
    /\ ra_pc' = [ra_pc EXCEPT ![t] = IF shared_memory = 0 THEN "construct" ELSE "return"]
    /\ UNCHANGED <<shared_memory, instances, ra_call, ra_mm, ra_history>>
    /\ RaOnly

\* line 17, `_shared_memory = MemoryManager()`
GmmConstruct(t) ==
    /\ ra_pc[t] = "construct"
    /\ instances' = Append(instances, EmptyStore)
    /\ shared_memory' = Len(instances) + 1
    /\ ra_pc' = [ra_pc EXCEPT ![t] = "return"]
    /\ UNCHANGED <<ra_call, ra_mm, ra_history>>
    /\ RaOnly

\* line 18, `return _shared_memory`: get_memory_manager returns to its
\* caller, which is the thread itself or lines 25 and 30
GmmReturn(t) ==
    /\ ra_pc[t] = "return"
    /\ ra_mm' = [ra_mm EXCEPT ![t] = shared_memory]
    /\ IF ra_call[t].op = "get_memory_manager"
       THEN /\ ra_pc' = [ra_pc EXCEPT ![t] = "idle"]
            /\ ra_history' = Append(ra_history,
                  [op |-> ra_call[t].op, agent |-> <<>>, data |-> PyNone,
                   mm |-> shared_memory])
       ELSE /\ ra_pc' = [ra_pc EXCEPT ![t] = "use"]
            /\ UNCHANGED ra_history
    /\ UNCHANGED <<shared_memory, instances, ra_call>>
    /\ RaOnly

\* line 26, mm.set(...), and line 31, return mm.get(...)
RaUse(t) ==
    /\ ra_pc[t] = "use"
    /\ LET c == ra_call[t]
           key == AgentKey(c.agent)
       IN IF c.op = "store_agent_state"
          THEN /\ instances' = [instances EXCEPT ![ra_mm[t]] = StoreSet(@, key, c.data)]
               /\ ra_history' = Append(ra_history,
                     [op |-> c.op, agent |-> c.agent, data |-> c.data, mm |-> ra_mm[t]])
          ELSE /\ UNCHANGED instances
               /\ ra_history' = Append(ra_history,
                     [op |-> c.op, agent |-> c.agent,
                      data |-> StoreGet(instances[ra_mm[t]], key, PyNone),
                      mm |-> ra_mm[t]])
    /\ ra_pc' = [ra_pc EXCEPT ![t] = "idle"]
    /\ UNCHANGED <<shared_memory, ra_call, ra_mm>>
    /\ RaOnly

NextRelayApi ==
    \E t \in ra_callers :
        RaCall(t) \/ GmmCheck(t) \/ GmmConstruct(t) \/ GmmReturn(t) \/ RaUse(t)

(***************************************************************************)
(* The specifications.                                                     *)
(***************************************************************************)
\* before main.py is loaded
NotLoaded ==
    /\ RELAY_UPSTREAM = Unset
    /\ RELAY_PORT = 0
    /\ FRONTEND_ORIGIN = <<>>
    /\ ALLOWED_ORIGINS = <<>>
    /\ routes = {}
    /\ health_served = 0
    /\ shared_memory = 0
    /\ instances = <<>>

\* main.py loaded with RELAY_UPSTREAM alone set
Serving(upstream) ==
    /\ load_pc = "serving"
    /\ env = [n \in EnvNames |-> IF n = "RELAY_UPSTREAM" THEN SetTo(upstream) ELSE Unset]
    /\ RELAY_UPSTREAM = SetTo(upstream)
    /\ RELAY_PORT = 8000
    /\ FRONTEND_ORIGIN = DefaultFrontendOrigin
    /\ ALLOWED_ORIGINS = Fallbacks
    /\ routes = AllRoutes
    /\ health_served = 0
    /\ shared_memory = 1
    /\ instances = <<EmptyStore>>

\* the values each variable of the environment is given
EnvValues ==
    [RELAY_UPSTREAM |-> {Unset, SetTo(<<>>), SetTo(HttpUpstream), SetTo(HttpsUpstream)},
     RELAY_PORT |-> {Unset, SetTo(<<>>), SetTo(<<"8", "0", "8", "0">>),
                     SetTo(<<"a", "b">>), SetTo(<<" ", "9", "0">>)},
     PORT |-> {Unset, SetTo(<<"9", "0", "0", "0">>), SetTo(<<"x">>)},
     FRONTEND_ORIGIN |-> {Unset, SetTo(<<>>),
                          SetTo(O8080 \o <<",", " ">> \o O8080 \o O3000)}]

InitStartup ==
    /\ load_pc = "start"
    /\ env \in [EnvNames -> UNION {EnvValues[n] : n \in EnvNames}]
    /\ \A n \in EnvNames : env[n] \in EnvValues[n]
    /\ NotLoaded
    /\ HttpIdle /\ WsIdle /\ MetIdle /\ MemIdle

NextStartup ==
    \/ LoadUpstream \/ UpstreamMissing \/ ParsePort \/ PortInvalid
    \/ ReadFrontendOrigin \/ BuildAllowedOrigins \/ CreateApp \/ RootHealth

\* The module body runs to its end or to the statement that raises.
LoadSteps ==
    \/ LoadUpstream \/ UpstreamMissing \/ ParsePort \/ PortInvalid
    \/ ReadFrontendOrigin \/ BuildAllowedOrigins \/ CreateApp

SpecStartupFair == InitStartup /\ [][NextStartup]_vars /\ WF_vars(LoadSteps)

\* the load has passed line 30; FRONTEND_ORIGIN is any text up to MaxEnvLen
InitOrigins ==
    /\ load_pc = "origins"
    /\ \E f \in {Unset} \cup {SetTo(t) : t \in SeqsUpTo(OriginSymbols, MaxEnvLen)} :
          env = [n \in EnvNames |->
                    IF n = "RELAY_UPSTREAM" THEN SetTo(HttpUpstream)
                    ELSE IF n = "FRONTEND_ORIGIN" THEN f ELSE Unset]
    /\ RELAY_UPSTREAM = SetTo(HttpUpstream)
    /\ RELAY_PORT = 8000
    /\ FRONTEND_ORIGIN = <<>>
    /\ ALLOWED_ORIGINS = <<>>
    /\ routes = {}
    /\ health_served = 0
    /\ shared_memory = 0
    /\ instances = <<>>
    /\ HttpIdle /\ WsIdle /\ MetIdle /\ MemIdle

NextOrigins == ReadFrontendOrigin \/ BuildAllowedOrigins

SpecOrigins == InitOrigins /\ [][NextOrigins]_vars

InitHTTP == Serving(HttpUpstream) /\ HttpIdle /\ WsIdle /\ MetIdle /\ MemIdle

SpecHTTP == InitHTTP /\ [][NextHTTP]_vars

InitWS == Serving(HttpUpstream) /\ HttpIdle /\ WsInit /\ MetIdle /\ MemIdle

SpecWS == InitWS /\ [][NextWS]_vars

\* proxy_ws for every client query and header set up to the bounds, with an
\* http and an https upstream, on connections that carry no frame
InitWSUrl ==
    /\ \E upstream \in {HttpUpstream, HttpsUpstream} : Serving(upstream)
    /\ HttpIdle /\ MetIdle /\ MemIdle
    /\ \E query \in SeqsUpTo(QueryItems, MaxQuery),
          hs \in SeqsUpTo(WsHeaders, MaxWsHeaders) : WsRequest(query, hs)

NextWSUrl ==
    \/ WsAccept \/ WsConnectOk \/ WsConnectFails \/ WsErrSend \/ WsErrClose
    \/ WsExitContext \/ ClientGoes \/ UpstreamGoes
    \/ FuRecvEnds \/ FuFinally
    \/ FcRecvDisconnect \/ FcRecvRaises \/ FcCloseUpstream

SpecWSUrl == InitWSUrl /\ [][NextWSUrl]_vars

\* What the handler and its two tasks do on their own: every step but the
\* arrival of a frame and the two peers going away.
HandlerSteps == WsAccept \/ WsConnectOk \/ WsConnectFails \/ WsErrSend \/ WsErrClose \/ WsExitContext
FromUpstreamSteps == FuRecvEnds \/ FuSendOk \/ FuSendFails \/ FuCloseUpstream \/ FuFinally
FromClientSteps == FcRecvDisconnect \/ FcRecvRaises \/ FcSendOk \/ FcSendFails \/ FcCloseUpstream

\* the event loop runs every task that can run
SpecWSFair ==
    /\ InitWS /\ [][NextWS]_vars
    /\ WF_vars(HandlerSteps) /\ WF_vars(FromUpstreamSteps) /\ WF_vars(FromClientSteps)

InitMemory == Serving(HttpUpstream) /\ HttpIdle /\ WsIdle /\ MetIdle /\ MemIdle

SpecMemory == InitMemory /\ [][NextMemory]_vars

\* relay_api imported by main.py, whose load has made the first call of
\* get_memory_manager, or imported on its own; `callers` are its threads
RelayApiStart(callers) ==
    /\ \/ Serving(HttpUpstream)
       \/ load_pc = "start" /\ env = [n \in EnvNames |-> Unset] /\ NotLoaded
    /\ HttpIdle /\ WsIdle /\ MetIdle
    /\ mm_history = <<>>
    /\ mm_result = NoMemResult
    /\ ra_callers = callers
    /\ ra_pc = [t \in callers |-> "idle"]
    /\ ra_call = [t \in callers |-> NoRaCall]
    /\ ra_mm = [t \in callers |-> 0]
    /\ ra_history = <<>>

\* one caller: the calls follow one another
SpecRelayApi == RelayApiStart({1}) /\ [][NextRelayApi]_vars

\* the calls of several threads overlap
SpecRelayApiThreads == RelayApiStart(Callers) /\ [][NextRelayApi]_vars

\* the thread of the event loop, which runs the coroutines of main.py
EventLoop == 1

\* metrics_get, main.py:267-270: GET /metrics runs get_metrics_text on the
\* event loop
MetricsGet ==
    \/ ("/metrics" \in routes /\ StartGetMetricsText(EventLoop))
    \/ Acquire(EventLoop) \/ FormatLines(EventLoop)
    \/ ReleaseText(EventLoop) \/ ReturnText(EventLoop)

\* the routes of the proxy that touch backend/observability.py or are
\* counted by it: nothing else in main.py calls the module
NextProxyMetrics == NextHTTP \/ MetricsGet

SpecProxyMetrics == InitHTTP /\ [][NextProxyMetrics]_vars

InitMetrics == Serving(HttpUpstream) /\ HttpIdle /\ WsIdle /\ MetIdle /\ MemIdle

SpecMetrics == InitMetrics /\ [][NextMetrics]_vars

(***************************************************************************)
(* The relay of /ws/ai-chat.                                               *)
(***************************************************************************)
\* C1: in an established pairing, whatever the interleaving of the two
\* loops, the frames sent to the upstream are a prefix of the text/binary
\* frames received from the client, and the frames sent to the client are a
\* prefix of the frames received from the upstream: same payload, same
\* type, same order, nothing inserted, nothing twice.
C1_RelayIsVerbatimPrefix ==
    /\ IsPrefix(to_upstream_tx, from_client_rx)
    /\ upstream_conn # "none" => IsPrefix(to_client_tx, from_upstream_rx)

\* Both directions have carried two frames, of both types, an empty
\* payload among them.
C1_Witness ==
    /\ to_upstream_tx = <<TextFrame(""), BinaryFrame("a")>>
    /\ to_client_tx = <<BinaryFrame(""), TextFrame("a")>>

ClientDisconnectSeen == fc_end \in {"disconnect_event", "ws_disconnect_exc"}

\* C2: once from_client has received the client's disconnect (the
\* websocket.disconnect event or WebSocketDisconnect), its one next step is
\* to close upstream_ws, which nothing from_upstream does can block; after
\* it the loop has ended and upstream_ws is closed; the upstream was
\* connected to once and is not connected to again.
C2_ClientDisconnectClosesUpstream ==
    ClientDisconnectSeen =>
        /\ \/ fc_pc = "close_up" /\ ENABLED FcCloseUpstream
           \/ fc_pc = "done" /\ upstream_conn \in {"closed", "peer_closed"}
        /\ connect_attempts = 1
        /\ ws_pc \in {"relay", "done"}

\* The client's disconnect has closed upstream_ws while from_upstream was
\* about to send a frame to the client.
C2_Witness ==
    /\ fc_end = "disconnect_event"
    /\ fc_pc = "done"
    /\ upstream_conn = "closed"
    /\ fu_pc = "send"

ConnectFailed == ws_pc \in {"err_send", "err_close", "done"} /\ upstream_conn = "none"

ErrorJson == "{\"type\": \"error\", \"error\": \"upstream_connection_failed\"}"

\* C3 as claimed: when the connection attempt has failed and the handler
\* has returned, the client was sent exactly one frame, the error JSON, the
\* client connection is closed, no loop was started and one attempt was made.
C3_ExactlyOneErrorFrame ==
    (ConnectFailed /\ ws_pc = "done") =>
        /\ to_client_tx = <<TextFrame(ErrorJson)>>
        /\ client_conn # "open"
        /\ fu_pc = "none" /\ fc_pc = "none"
        /\ connect_attempts = 1

\* C3 as amended: when the connection attempt has failed, the client is
\* sent the error JSON as the only frame, or no frame at all when it has
\* already gone (the failed send is swallowed); when the handler has
\* returned the client connection is closed; no loop is started and no
\* second attempt is made.
C3_AtMostOneErrorFrame ==
    ConnectFailed =>
        /\ to_client_tx \in {<<>>, <<TextFrame(ErrorJson)>>}
        /\ ws_pc = "err_send" => to_client_tx = <<>>
        /\ (ws_pc # "err_send" /\ to_client_tx = <<>>) => client_conn = "peer_gone"
        /\ ws_pc = "done" => client_conn # "open"
        /\ fu_pc = "none" /\ fc_pc = "none"
        /\ connect_attempts = 1
        /\ from_upstream_rx = <<>> /\ to_upstream_tx = <<>>

\* The attempt failed, the frame was sent and the client connection closed.
C3_Witness ==
    /\ ConnectFailed /\ ws_pc = "done"
    /\ to_client_tx = <<TextFrame(ErrorJson)>>
    /\ client_conn = "closed"

(***************************************************************************)
(* The forwarding of /api/execute_method.                                  *)
(***************************************************************************)
HopNamesOfTheSpec ==
    {<<"c", "o", "n", "n", "e", "c", "t", "i", "o", "n">>,
     <<"k", "e", "e", "p", "-", "a", "l", "i", "v", "e">>,
     <<"p", "r", "o", "x", "y", "-", "a", "u", "t", "h", "e", "n", "t", "i", "c", "a", "t", "e">>,
     <<"p", "r", "o", "x", "y", "-", "a", "u", "t", "h", "o", "r", "i", "z", "a", "t", "i", "o", "n">>,
     <<"t", "e">>,
     <<"t", "r", "a", "i", "l", "e", "r", "s">>,
     <<"t", "r", "a", "n", "s", "f", "e", "r", "-", "e", "n", "c", "o", "d", "i", "n", "g">>,
     <<"u", "p", "g", "r", "a", "d", "e">>,
     <<"c", "o", "n", "t", "e", "n", "t", "-", "l", "e", "n", "g", "t", "h">>}

Returned == http_pc \in {"returned_options", "returned_post"}

\* C4: for every upstream response, to OPTIONS or to POST, the response
\* returned to the client has no header whose lower-cased name is one of
\* the nine hop-by-hop names, has every other header of the upstream
\* response with its value, and has the upstream's status code and body.
C4_HopByHopStripped ==
    (Returned /\ upstream_resp.got) =>
        /\ \A i \in 1..Len(response.headers) :
              Lower(response.headers[i].k) \notin HopNamesOfTheSpec
        /\ \A j \in 1..Len(upstream_resp.headers) :
              Lower(upstream_resp.headers[j].k) \notin HopNamesOfTheSpec
                 => \E i \in 1..Len(response.headers) :
                       response.headers[i] = upstream_resp.headers[j]
        /\ response.status = upstream_resp.status
        /\ response.content = upstream_resp.content
        /\ response.detail = NoneVal

\* An OPTIONS answer of the upstream with a capitalised hop-by-hop header
\* and another header has come back with the other header alone.
C4_Witness ==
    /\ http_pc = "returned_options"
    /\ upstream_resp.got
    /\ upstream_resp.status = 429
    /\ upstream_resp.content = "{}"
    /\ upstream_resp.headers = <<[k |-> NTransferEncoding, v |-> "v"],
                                 [k |-> NXRequestId, v |-> "v"]>>
    /\ response.headers = <<[k |-> NXRequestId, v |-> "v"]>>

\* C5: when the upstream cannot be reached the handler answers 502 with
\* the detail "Upstream OPTIONS failed" to an OPTIONS request and "Upstream
\* POST failed" to a POST request, with no upstream header or body in the
\* answer; whatever the outcome, the upstream was tried once for the request.
C5_BadGatewayPerMethod ==
    /\ Returned => upstream_calls = 1
    /\ (http_pc = "returned_options" /\ ~upstream_resp.got) =>
          response = [status |-> 502, headers |-> <<>>, content |-> "",
                      detail |-> Some("Upstream OPTIONS failed")]
    /\ (http_pc = "returned_post" /\ ~upstream_resp.got) =>
          response = [status |-> 502, headers |-> <<>>, content |-> "",
                      detail |-> Some("Upstream POST failed")]
    /\ (Returned /\ response.status = 502 /\ response.detail.some) => ~upstream_resp.got

\* The second request of a run, an OPTIONS, has met an unreachable upstream.
C5_Witness ==
    /\ http_pc = "returned_options"
    /\ ~upstream_resp.got
    /\ response.status = 502
    /\ requests_done = 1

\* the inbound values of the headers named `key`, lower-cased
InboundValues(key) ==
    {request.headers[i].v : i \in {j \in 1..Len(request.headers) :
                                       Lower(request.headers[j].k) = key}}
InboundHas(key) == InboundValues(key) # {}
LastInbound(key) ==
    request.headers[CHOOSE i \in 1..Len(request.headers) :
        /\ Lower(request.headers[i].k) = key
        /\ \A j \in 1..Len(request.headers) :
              Lower(request.headers[j].k) = key => j <= i].v
FirstInbound(key) ==
    request.headers[CHOOSE i \in 1..Len(request.headers) :
        /\ Lower(request.headers[i].k) = key
        /\ \A j \in 1..Len(request.headers) :
              Lower(request.headers[j].k) = key => i <= j].v

Outbound == UpstreamRequest(request, headers_to_send).headers

AllowList ==
    {<<NOrigin, Korigin>>, <<NAcrm, Kacrm>>, <<NAcrh, Kacrh>>,
     <<NContentType, KcontentType>>, <<NXApiKey, KxApiKey>>}

Fatal == load_pc \in {"fatal_config", "fatal_port"}
NothingStarted == routes = {} /\ health_served = 0 /\ ALLOWED_ORIGINS = <<>>

UpstreamGiven == env["RELAY_UPSTREAM"].set /\ env["RELAY_UPSTREAM"].text # <<>>
PortGivenIsInt ==
    LET port == IF env["RELAY_PORT"].set THEN env["RELAY_PORT"].text
                ELSE IF env["PORT"].set THEN env["PORT"].text
                ELSE <<"8", "0", "0", "0">>
    IN port \in {<<"8", "0", "8", "0">>, <<" ", "9", "0">>,
                 <<"9", "0", "0", "0">>, <<"8", "0", "0", "0">>}

\* C7 as claimed: with RELAY_UPSTREAM unset the load ends in the fatal
\* configuration error before any route is registered or request served;
\* with RELAY_UPSTREAM set the load does not end in an error.
C7_RefusesOnlyWhenUnset ==
    /\ (~env["RELAY_UPSTREAM"].set /\ load_pc # "start") =>
          load_pc = "fatal_config" /\ NothingStarted
    /\ env["RELAY_UPSTREAM"].set => ~Fatal

C7_Safety ==
    /\ (~UpstreamGiven /\ load_pc # "start") =>
          load_pc = "fatal_config" /\ NothingStarted
    /\ Fatal => NothingStarted
    /\ UpstreamGiven => load_pc # "fatal_config"
    /\ (UpstreamGiven /\ load_pc # "start") => RELAY_UPSTREAM = env["RELAY_UPSTREAM"]
    /\ (UpstreamGiven /\ PortGivenIsInt) => ~Fatal
    /\ load_pc = "serving" => routes = AllRoutes /\ UpstreamGiven

\* C7 as amended: with RELAY_UPSTREAM unset or empty the load ends in the
\* fatal configuration error before any route is registered or request
\* served; with RELAY_UPSTREAM set to a text that is not empty that error is
\* never raised, and the load goes on until the proxy serves when the port
\* text (RELAY_PORT, else PORT, else "8000") is an integer.
C7_RefusesWhenUnsetOrEmpty ==
    /\ []C7_Safety
    /\ (UpstreamGiven /\ PortGivenIsInt) ~> (load_pc = "serving")

\* A load was refused for a RELAY_UPSTREAM that is set, to the empty text:
\* nothing was registered and nothing served.
C7_Witness ==
    /\ env["RELAY_UPSTREAM"] = SetTo(<<>>)
    /\ load_pc = "fatal_config"
    /\ NothingStarted

\* C8: for every FRONTEND_ORIGIN text, ALLOWED_ORIGINS holds each distinct
\* origin once, holds the five defaults, lists the origins of the text
\* first, in the order of their first occurrence, then the defaults the
\* text lacks in their fixed order, and is what the construction gives
\* again for its own comma-joined text.
C8_OriginsDedupOrdered ==
    load_pc = "app" =>
        LET parts == SplitComma(FRONTEND_ORIGIN)
            given == [i \in 1..Len(parts) |-> Strip(parts[i])]
            supplied == {given[i] : i \in 1..Len(given)} \ {<<>>}
            L == ALLOWED_ORIGINS
            pos(x) == CHOOSE i \in 1..Len(L) : L[i] = x
            first(x) == CHOOSE i \in 1..Len(given) :
                           given[i] = x /\ \A j \in 1..(i - 1) : given[j] # x
            defaults == {O3000, O5173, O8000, O8080, O32100}
            rank(d) == CHOOSE i \in 1..5 :
                          <<O3000, O5173, O8000, O8080, O32100>>[i] = d
        IN /\ \A i, j \in 1..Len(L) : i # j => L[i] # L[j]
           /\ {L[i] : i \in 1..Len(L)} = supplied \cup defaults
           /\ \A a, b \in supplied : first(a) < first(b) => pos(a) < pos(b)
           /\ \A a \in supplied, d \in defaults \ supplied : pos(a) < pos(d)
           /\ \A d, e \in defaults \ supplied : rank(d) < rank(e) => pos(d) < pos(e)
           /\ BuildOrigins(JoinComma(L)) = L

\* A text with a blank, an empty part and the same default twice.
C8_Witness ==
    /\ load_pc = "app"
    /\ FRONTEND_ORIGIN = <<" ", O8080[1], ",", ",", O8080[1]>>
    /\ ALLOWED_ORIGINS = <<O8080, O3000, O5173, O8000, O32100>>

(***************************************************************************)
(* The counters of backend/observability.py.                               *)
(***************************************************************************)
AllReturned == \A t \in Callers : th_pc[t] = "idle"

\* C9: whatever the interleaving of the callers of increment_api_calls and
\* increment_ws_connections, once every caller has returned api_calls_total
\* is the sum of the amounts passed to increment_api_calls and
\* ws_connections_total the sum of those passed to increment_ws_connections.
C9_NoLostIncrement ==
    AllReturned => /\ metrics["api_calls_total"] = returned_api
                   /\ metrics["ws_connections_total"] = returned_ws

\* Two callers have made three calls between them, to both counters and
\* with three different amounts, and all have returned.
C9_Witness ==
    /\ AllReturned
    /\ calls_made = 3
    /\ returned_api = 3
    /\ returned_ws = -1
    /\ th_op[1].op = "api" /\ th_op[2].op = "ws"

\* the document of section 4.2 for the two values
TemplateText(api, ws) ==
    "# HELP relay_api_calls_total Number of /api/execute_method calls received\n"
    \o "# TYPE relay_api_calls_total counter\n"
    \o "relay_api_calls_total " \o ToString(api) \o "\n"
    \o "\n"
    \o "# HELP relay_ws_connections_total Number of WebSocket connections accepted\n"
    \o "# TYPE relay_ws_connections_total counter\n"
    \o "relay_ws_connections_total " \o ToString(ws) \o "\n"

TextReturnedAfterDefaultCalls(t) == th_result[t].some /\ th_snap[t].other = 0

\* a step of a caller that is in get_metrics_text
StepOfGetMetricsText ==
    \E t \in Callers : th_op'[t].op = "text" /\ th_pc'[t] # th_pc[t]

\* C10: when the only calls of increment_api_calls so far are N calls with
\* the default amount, the text get_metrics_text returns is the template of
\* section 4.2, line for line, an empty line after each counter line, with
\* the line `relay_api_calls_total N`; and no step of get_metrics_text
\* changes a counter.
C10_MetricsTextTemplate ==
    /\ [](\A t \in Callers :
             TextReturnedAfterDefaultCalls(t) =>
                 th_result[t].v = TemplateText(th_snap[t].api, th_snap[t].ws))
    /\ [][StepOfGetMetricsText => metrics' = metrics]_vars

\* get_metrics_text has returned after two recorded API calls.
C10_Witness ==
    \E t \in Callers :
        /\ th_result[t].some
        /\ th_snap[t].api = 2 /\ th_snap[t].ws = 0 /\ th_snap[t].other = 0
        /\ metrics["api_calls_total"] = 2
        /\ th_result[t].v =
              "# HELP relay_api_calls_total Number of /api/execute_method calls received\n# TYPE relay_api_calls_total counter\nrelay_api_calls_total 2\n\n# HELP relay_ws_connections_total Number of WebSocket connections accepted\n# TYPE relay_ws_connections_total counter\nrelay_ws_connections_total 0\n"

(***************************************************************************)
(* The memory manager and the relay_api helpers.                           *)
(***************************************************************************)
\* the calls of `h` that decide what key holds: set(key), delete(key), clear()
Deciding(h, key) == {i \in 1..Len(h) : h[i].op = "clear" \/ h[i].key = key}
LastDeciding(h, key) == CHOOSE i \in Deciding(h, key) : \A j \in Deciding(h, key) : j <= i

\* key has a value: its most recent deciding call is a set
HasValue(h, key) == Deciding(h, key) # {} /\ h[LastDeciding(h, key)].op = "set"

\* C11: after any sequence of set, delete and clear calls, get(k, d)
\* returns the value of the most recent set(k, v) that no delete(k) or
\* clear() followed, and d when there is none; keys() lists, each once,
\* exactly the keys that have such a value (none right after clear()); so a
\* set(k, v) changes what is read for no other key.
C11_MemoryManagerIsMap ==
    /\ mm_result.op = "get" =>
          mm_result.value =
             IF HasValue(mm_history, mm_result.key)
             THEN mm_history[LastDeciding(mm_history, mm_result.key)].value
             ELSE mm_result.default
    /\ mm_result.op = "keys" =>
          /\ \A i, j \in 1..Len(mm_result.keys) :
                i # j => mm_result.keys[i] # mm_result.keys[j]
          /\ {mm_result.keys[i] : i \in 1..Len(mm_result.keys)} =
                {k \in MemKeys : HasValue(mm_history, k)}

\* get("k", d) after set("k", {x:1}), a set of another key and set("k", {})
\* returns {}.
C11_Witness ==
    /\ mm_history = <<[op |-> "set", key |-> <<"k">>, value |-> PyDict("{x:1}")],
                      [op |-> "set", key |-> AgentKey(<<"a">>), value |-> PyNone],
                      [op |-> "set", key |-> <<"k">>, value |-> PyDict("{}")]>>
    /\ mm_result.op = "get" /\ mm_result.key = <<"k">>
    /\ mm_result.default = PyDict("d")
    /\ mm_result.value = PyDict("{}")

\* C12: delete(k) returns true exactly when k was present just before the
\* call, whatever value it held (None included), and false exactly when it
\* was absent; after the call k is not present.
C12_DeleteReturnsPresence ==
    mm_result.op = "delete" =>
        /\ mm_result.deleted =
              HasValue(SubSeq(mm_history, 1, Len(mm_history) - 1), mm_result.key)
        /\ ~HasValue(mm_history, mm_result.key)
        /\ \A i \in 1..Len(instances[1]) : instances[1][i].k # mm_result.key

\* delete("k") was called after set("k", None).
C12_Witness ==
    /\ mm_history = <<[op |-> "set", key |-> <<"k">>, value |-> PyNone],
                      [op |-> "delete", key |-> <<"k">>, value |-> PyNone]>>
    /\ mm_result.op = "delete"
    /\ instances[1] = <<>>


\* the store_agent_state calls for `agent` among the first n calls of h
StoresBefore(h, n, agent) ==
    {j \in 1..n : h[j].op = "store_agent_state" /\ h[j].agent = agent}

\* every load_agent_state returned the record of the latest
\* store_agent_state for its agent, and None when there was none
LoadsReturnLatestStore ==
    \A i \in 1..Len(ra_history) :
        ra_history[i].op = "load_agent_state" =>
            LET before == StoresBefore(ra_history, i - 1, ra_history[i].agent)
            IN ra_history[i].data =
                  IF before = {} THEN PyNone
                  ELSE ra_history[CHOOSE j \in before : \A l \in before : l <= j].data

\* C13: store_agent_state(a, d) followed by load_agent_state(a) returns d,
\* the latest record stored for a; load_agent_state(a) for an agent never
\* stored returns None; a store_agent_state for another agent changes
\* nothing of that.
C13_AgentStateRoundTrip == LoadsReturnLatestStore

\* "a" was stored twice, "b" was never stored; the loads follow.
C13_Witness ==
    /\ Len(ra_history) = 3
    /\ ra_history[1].op = "store_agent_state" /\ ra_history[1].agent = <<"a">>
    /\ ra_history[1].data = PyDict("{}")
    /\ ra_history[2].op = "store_agent_state" /\ ra_history[2].agent = <<"b">>
    /\ ra_history[2].data = PyDict("{x:1}")
    /\ ra_history[3].op = "load_agent_state" /\ ra_history[3].agent = <<"a">>
    /\ ra_history[3].data = PyDict("{}")

\* C14: at most one MemoryManager has been constructed, every call of
\* get_memory_manager (made directly or by the agent-state helpers)
\* returned the same instance, and what was stored through one call's
\* instance is read back through another's.
C14_OneSharedInstance ==
    /\ Len(instances) <= 1
    /\ \A i, j \in 1..Len(ra_history) : ra_history[i].mm = ra_history[j].mm
    /\ \A t \in ra_callers : ra_pc[t] = "use" => ra_mm[t] = shared_memory
    /\ LoadsReturnLatestStore

\* Two get_memory_manager calls have returned two different instances.
C14_Witness ==
    /\ Len(instances) = 2
    /\ \E i, j \in 1..Len(ra_history) :
          /\ ra_history[i].op = "get_memory_manager"
          /\ ra_history[j].op = "get_memory_manager"
          /\ ra_history[i].mm # ra_history[j].mm


FromUpstreamEnded == fu_pc \in {"close_up", "finally", "done"}

\* C15: once from_upstream has left its loop (the upstream closed, a
\* receive raised, or a send to the client failed) no further frame goes to
\* the client; when from_upstream has ended the client connection is not
\* open; from_client ends too and the handler returns.
C15_UpstreamEndTearsDown ==
    /\ [][FromUpstreamEnded => to_client_tx' = to_client_tx]_vars
    /\ [](fu_pc = "done" => client_conn \in {"closed", "peer_gone"})
    /\ FromUpstreamEnded ~> (ws_pc = "done" /\ fc_pc = "done" /\ fu_pc = "done")


\* The upstream closed after one frame was relayed; both loops have ended,
\* from_client on the disconnect that followed the close of the client
\* side, and the handler has returned.
C15_Witness ==
    /\ fu_end = "upstream_closed"
    /\ fc_end = "disconnect_event"
    /\ ws_pc = "done" /\ fu_pc = "done" /\ fc_pc = "done"
    /\ client_conn = "closed"
    /\ Len(to_client_tx) = 1 /\ Len(from_upstream_rx) = 1

DiagnosticFrame == TextFrame(ErrorJson)
SentDiagnostic == \E i \in 1..Len(to_client_tx) : to_client_tx[i] = DiagnosticFrame

\* C20: the upstream_connection_failed frame is among the frames sent to the
\* client only when upstream_ws was never opened; once it was opened, however
\* the loops and the connection end, no such frame is sent; the frame is
\* sent at most once, as the only frame, and after it nothing is sent to the
\* client, whose connection the handler then closes.
C20_ErrorFrameOnlyWithoutUpstream ==
    /\ [](upstream_conn # "none" => ~SentDiagnostic)
    /\ [](SentDiagnostic =>
            /\ to_client_tx = <<DiagnosticFrame>>
            /\ upstream_conn = "none" /\ fu_pc = "none" /\ fc_pc = "none"
            /\ ws_pc \in {"err_close", "done"}
            /\ ws_pc = "done" => client_conn # "open")
    /\ [][SentDiagnostic => to_client_tx' = to_client_tx]_vars

\* upstream_ws was opened, two frames were relayed to the client, the
\* upstream receive failed, the forward of a client payload failed, and the
\* handler has returned without a diagnostic frame.
C20_Witness ==
    /\ ws_pc = "done"
    /\ upstream_conn # "none"
    /\ fu_end = "upstream_error"
    /\ fc_end = "send_failed"
    /\ Len(to_client_tx) = 2
    /\ ~SentDiagnostic


CounterNames == {"api_calls_total", "ws_connections_total"}

\* C19: after any calls of increment_api_calls and increment_ws_connections,
\* with any integer amounts, both counters are non-negative and no step has
\* made either of them smaller.
C19_CountersNeverDecrease ==
    /\ [](\A k \in CounterNames : metrics[k] >= 0)
    /\ [][\A k \in CounterNames : metrics'[k] >= metrics[k]]_vars

\* increment_api_calls(-1) has returned in a process that made no other
\* call: api_calls_total is -1.
C19_Witness ==
    /\ AllReturned
    /\ calls_made = 1
    /\ returned_api = -1
    /\ metrics["api_calls_total"] = -1
    /\ metrics["ws_connections_total"] = 0


(***************************************************************************)
(* GET /metrics of the proxy.                                              *)
(***************************************************************************)
\* the text caller t was served was built when n calls of
\* /api/execute_method had been answered and none was being handled
ServedAfter(t, n) ==
    /\ th_result[t].some
    /\ th_snap[t].handled = n
    /\ ~th_snap[t].inflight

HasLine(lines, l) == \E i \in 1..Len(lines) : lines[i] = l

\* C18: the text GET /metrics serves after the proxy has handled N calls of
\* /api/execute_method contains the line `relay_api_calls_total N`.
C18_MetricsCountHandledCalls ==
    \A t \in Callers, n \in 0..MaxRequests :
        ServedAfter(t, n) =>
            HasLine(th_lines[t], "relay_api_calls_total " \o ToString(n))

\* GET /metrics was served after one call of /api/execute_method had been
\* answered.
C18_Witness ==
    /\ ServedAfter(EventLoop, 1)
    /\ requests_done = 1
    /\ th_pc[EventLoop] = "idle"
    /\ metrics["api_calls_total"] = 0


(***************************************************************************)
(* The upstream URL of proxy_ws.                                           *)
(***************************************************************************)
\* the URL the claim describes for a client, `extra` being the api_key item
\* taken from the header, if any
ClaimedUrl(extra) ==
    LET up == RELAY_UPSTREAM.text
        q == client_query \o extra
    IN <<IF up[1] = "https" THEN "wss" ELSE "ws", "://", up[3], "/ws/ai-chat">>
       \o (IF q = <<>> THEN <<>> ELSE <<"?">> \o Urlencode(q))

XApiKeyValues ==
    {client_headers[i].v : i \in {j \in 1..Len(client_headers) :
                                    Lower(client_headers[j].k) = KxApiKey}}

QueryHasApiKey == \E i \in 1..Len(client_query) : client_query[i].k = KapiKey

\* C17: once the handler has built it, the upstream URL has scheme wss for
\* an https upstream and ws for an http one, the upstream's host, the path
\* /ws/ai-chat and a query of all the items of the client's query, followed
\* by api_key with the value of the x-api-key header when the client's query
\* has no api_key and the header is there; and once the handler has passed
\* line 183 it has called websockets.connect exactly once.
C17_UpstreamUrl ==
    ws_pc \notin {"idle", "accept"} =>
        /\ IF QueryHasApiKey \/ XApiKeyValues = {}
           THEN upstream_ws_url = ClaimedUrl(<<>>)
           ELSE \E hv \in XApiKeyValues :
                   upstream_ws_url = ClaimedUrl(<<[k |-> KapiKey, v |-> hv]>>)
        /\ ws_pc # "connect" => connect_attempts = 1

\* The client asked for /ws/ai-chat?q=1&q=a+ and the URL has been built:
\* its query is q=a+ alone.
C17_Witness ==
    /\ client_query = <<[k |-> <<"q">>, v |-> <<"1">>], [k |-> <<"q">>, v |-> <<"a", " ">>]>>
    /\ client_headers = <<>>
    /\ upstream_ws_url =
          <<"ws", "://", "localhost:8001", "/ws/ai-chat", "?", "q", "=", "a", "+">>
    /\ ws_pc = "done"


=============================================================================
